---------------------------- MODULE Spec2Model ----------------------------
(***************************************************************************)
(* A model of the target data-layout parser of llvm-model                  *)
(* (src/src/target/layout.rs): the value types, the pointer-layout and     *)
(* primitive-alignment tables, and Layout::try_from, which splits a layout *)
(* string on '-' and folds every token into a draft Layout.                *)
(*                                                                         *)
(* Spec is one call of Layout::try_from, a token at a time.  SpecPointers  *)
(* is a caller of PointerLayoutMap, SpecTables a caller of Layout::default,*)
(* Layout::try_from and the PrimitiveAlignmentMap of the layouts it owns,  *)
(* with the three default tables and the maps of the layouts in one store. *)
(* SpecFair is Spec with the loop taken fairly, SpecConcurrent two threads *)
(* in Layout::try_from at once, SpecTriples a caller of the target triples *)
(* (src/src/target/mod.rs), SpecBlocks a caller of BasicBlock              *)
(* (src/src/block.rs) and SpecIdentifiers a caller of Id and Identifier    *)
(* (src/src/identifier.rs).                                                *)
(*                                                                         *)
(* Characters are one-character strings and a string is a sequence of      *)
(* characters.  A u32 is the pair <<hi, lo>> of its 16-bit halves, so that *)
(* the whole range 0 .. 2^32-1 and its overflow are represented exactly.   *)
(* Option<T> is <<>> (None) or <<x>> (Some(x)); a HashMap is a function.   *)
(***************************************************************************)
EXTENDS Integers, Sequences, FiniteSets, TLC

VARIABLES
    input,           \* the tokens the layout string is written from (ghost)
    text,            \* the &Id handed to Layout::try_from
    specifications,  \* the Split iterator: the tokens not yet taken
    layout,          \* the draft Layout of try_from
    result,          \* what try_from returned, once it has
    pc,              \* "loop" while in the token loop, "done" after the return
    pointers,        \* the PointerLayoutMap of the caller of SpecPointers
    tables,          \* the PrimitiveAlignmentMaps alive, by their place in memory
    owned,           \* the layouts the caller of SpecTables owns: the places of their maps
    calls,           \* the calls made so far, with what they returned (ghost)
    instructions,    \* BasicBlock::instructions of each block made so far
    terminated,      \* BasicBlock::terminated of each block made so far
    held             \* the Identifier the caller of SpecIdentifiers holds

vars ==
    <<input, text, specifications, layout, result, pc,
      pointers, tables, owned, calls, instructions, terminated, held>>

\* the blocks and the identifier of the callers of block.rs and identifier.rs
objectVars == <<instructions, terminated, held>>

-----------------------------------------------------------------------------
(* Option<T> *)

None == <<>>

Some(x) == <<x>>

\* Option<Option<T>>::flatten
flatten(o) == IF o = None THEN None ELSE o[1]

-----------------------------------------------------------------------------
(* u32 *)

HALF == 2^16

\* the u32 of a small literal
U32(n) == <<n \div HALF, n % HALF>>

U32Zero == <<0, 0>>

DigitChars == <<"0", "1", "2", "3", "4", "5", "6", "7", "8", "9">>

is_ascii_digit(c) == \E i \in 1..10 : DigitChars[i] = c

to_digit(c) == (CHOOSE i \in 1..10 : DigitChars[i] = c) - 1

\* wrapping_mul(10) followed by wrapping_add(d): the result modulo 2^32
wrapping_mul10_add(v, d) ==
    LET lo == v[2] * 10 + d
        hi == v[1] * 10 + (lo \div HALF)
    IN  Some(<<hi % HALF, lo % HALF>>)

\* checked_mul(10) followed by checked_add(d): <<>> on overflow
checked_mul10_add(v, d) ==
    LET lo == v[2] * 10 + d
        hi == v[1] * 10 + (lo \div HALF)
    IN  IF hi >= HALF THEN None ELSE Some(<<hi, lo % HALF>>)

RECURSIVE from_str_radix_loop(_, _)
RECURSIVE from_str_radix_step(_, _)
from_str_radix_step(digits, next) ==
    IF next = None THEN [ok |-> FALSE, kind |-> "PosOverflow"]
    ELSE from_str_radix_loop(Tail(digits), next[1])

from_str_radix_loop(digits, acc) ==
    IF digits = <<>> THEN [ok |-> TRUE, value |-> acc]
    ELSE from_str_radix_step(digits,
             checked_mul10_add(acc, to_digit(Head(digits))))

\* <u32 as FromStr>::from_str on a string of ASCII digits
u32_from_str(digits) ==
    IF digits = <<>> THEN [ok |-> FALSE, kind |-> "Empty"]
    ELSE from_str_radix_loop(digits, U32Zero)

-----------------------------------------------------------------------------
(* BitSize, AddressSpace, AlignmentPair, PointerLayout *)

VON_NEUMANN_DEFAULT == U32Zero

SIZE_1 == U32(1)

SIZE_8 == U32(8)

SIZE_16 == U32(16)

SIZE_32 == U32(32)

SIZE_64 == U32(64)

SIZE_128 == U32(128)

\* BitSize::from_bytes, of a NonZeroU8: u32::from(size.get()) * 8
from_bytes(size) == U32(size * 8)

AlignmentPair_new(abi_alignment) ==
    [abi |-> Some(abi_alignment), preferred |-> None]

AlignmentPair_with_preferred_alignment(abi_alignment, preferred_alignment) ==
    [abi |-> Some(abi_alignment), preferred |-> Some(preferred_alignment)]

AlignmentPair_with_preferred_only(preferred_alignment) ==
    [abi |-> None, preferred |-> Some(preferred_alignment)]

ALIGN_64_BITS == AlignmentPair_new(SIZE_64)

LAYOUT_64_BIT ==
    [address_space |-> VON_NEUMANN_DEFAULT,
     size          |-> SIZE_64,
     alignment     |-> ALIGN_64_BITS,
     index_size    |-> None]

\* <Endianness as Display>::fmt: the character written
Endianness_fmt(endianness) ==
    CASE endianness = "Little" -> "e"
      [] endianness = "Big" -> "E"

\* BitSize::unwrap_bits
unwrap_bits(size) == IF size = None THEN U32Zero ELSE size[1]

\* AlignmentPair::abi_alignment
abi_alignment(pair) == unwrap_bits(pair.abi)

\* a preferred_alignment that does not fall back to the ABI alignment
preferred_alignment_without_fallback(pair) == unwrap_bits(pair.preferred)

\* AlignmentPair::preferred_alignment
preferred_alignment(pair) ==
    IF pair.preferred # None THEN pair.preferred[1] ELSE abi_alignment(pair)

\* PointerLayout::index_size
index_size(pl) == IF pl.index_size = None THEN pl.size ELSE pl.index_size[1]

-----------------------------------------------------------------------------
(* PointerLayoutMap: a function from address spaces to pointer layouts *)

PointerLayoutMap_all_default == <<>>

PointerLayoutMap_is_all_default(map) == DOMAIN map = {}

PointerLayoutMap_get(map, address_space) ==
    IF address_space \in DOMAIN map THEN Some(map[address_space]) ELSE None

\* a get_or_default that gives the default layout whatever the map holds
PointerLayoutMap_get_or_default_ignoring_map(map, address_space) ==
    LAYOUT_64_BIT

\* PointerLayoutMap::get_or_default
PointerLayoutMap_get_or_default(map, address_space) ==
    IF PointerLayoutMap_get(map, address_space) = None
    THEN LAYOUT_64_BIT
    ELSE PointerLayoutMap_get(map, address_space)[1]

\* PointerLayoutMap::from_layout
PointerLayoutMap_from_layout(pl) == (pl.address_space :> pl)

\* PointerLayoutMap::insert: the map after the call and Ok(value) or
\* Err(existing)
PointerLayoutMap_insert(map, pl) ==
    IF PointerLayoutMap_is_all_default(map)
    THEN [ok |-> TRUE, map |-> map, value |-> LAYOUT_64_BIT]
    ELSE IF pl.address_space \in DOMAIN map
         THEN [ok |-> FALSE, map |-> map, existing |-> map[pl.address_space]]
         ELSE [ok |-> TRUE,
               map |-> [a \in DOMAIN map \cup {pl.address_space} |->
                           IF a = pl.address_space THEN pl ELSE map[a]],
               value |-> pl]

-----------------------------------------------------------------------------
(* PrimitiveAlignmentMap: a function from bit sizes to alignment pairs *)

INTEGER_ALIGNMENT_DEFAULTS ==
    (SIZE_1 :> AlignmentPair_new(SIZE_8)) @@
    (SIZE_8 :> AlignmentPair_new(SIZE_8)) @@
    (SIZE_16 :> AlignmentPair_new(SIZE_16)) @@
    (SIZE_32 :> AlignmentPair_new(SIZE_32)) @@
    (SIZE_64 :> AlignmentPair_new(SIZE_64))

FLOAT_ALIGNMENT_DEFAULTS ==
    (SIZE_16 :> AlignmentPair_new(SIZE_16)) @@
    (SIZE_32 :> AlignmentPair_new(SIZE_32)) @@
    (SIZE_64 :> AlignmentPair_new(SIZE_64)) @@
    (SIZE_128 :> AlignmentPair_new(SIZE_128))

VECTOR_ALIGNMENT_DEFAULTS ==
    (SIZE_64 :> AlignmentPair_new(SIZE_64)) @@
    (SIZE_128 :> AlignmentPair_new(SIZE_128))

\* PrimitiveAlignmentMap::integer_defaults(), float_defaults() and
\* vector_defaults(): the places of the three statics
integer_defaults == 1

float_defaults == 2

vector_defaults == 3

\* a strict insertion in the place of the replacing one: the first entry stays
insert_keep_first(map, size, alignment) ==
    [s \in DOMAIN map \cup {size} |->
        IF s \in DOMAIN map THEN map[s] ELSE alignment]

\* PrimitiveAlignmentMap::insert_or_replace
insert_or_replace(map, size, alignment) ==
    [s \in DOMAIN map \cup {size} |-> IF s = size THEN alignment ELSE map[s]]

\* a try_insert that reports the existing entry and overwrites it all the same
try_insert_replacing(map, size, alignment) ==
    IF size \in DOMAIN map
    THEN [ok       |-> FALSE,
          map      |-> insert_or_replace(map, size, alignment),
          existing |-> map[size]]
    ELSE [ok |-> TRUE, map |-> insert_or_replace(map, size, alignment)]

\* PrimitiveAlignmentMap::try_insert: the map after the call and Ok or
\* Err(existing)
try_insert(map, size, alignment) ==
    IF size \in DOMAIN map
    THEN [ok |-> FALSE, map |-> map, existing |-> map[size]]
    ELSE [ok |-> TRUE, map |-> map @@ (size :> alignment)]

\* PrimitiveAlignmentMap::get
PrimitiveAlignmentMap_get(map, size) ==
    IF size \in DOMAIN map THEN Some(map[size]) ELSE None

-----------------------------------------------------------------------------
(* Layout *)

Layout_default ==
    [endianness                 |-> "Little",
     stack_alignment            |-> None,
     program_address_space      |-> VON_NEUMANN_DEFAULT,
     global_address_space       |-> VON_NEUMANN_DEFAULT,
     alloca_address_space       |-> VON_NEUMANN_DEFAULT,
     pointer_layouts            |-> PointerLayoutMap_all_default,
     integer_alignments         |-> INTEGER_ALIGNMENT_DEFAULTS,
     vector_alignments          |-> VECTOR_ALIGNMENT_DEFAULTS,
     float_alignments           |-> FLOAT_ALIGNMENT_DEFAULTS,
     aggregate_object_alignment |-> AlignmentPair_with_preferred_only(SIZE_64),
     function_pointer_alignment |-> None,
     mangling                   |-> None,
     native_integer_widths      |-> <<>>]

-----------------------------------------------------------------------------
(* ParseError *)

InvalidSpecification(c) == [tag |-> "InvalidSpecification", char |-> c]

InvalidInteger(kind) == [tag |-> "InvalidInteger", kind |-> kind]

MissingInformation == [tag |-> "MissingInformation"]

ExpectedEnd(remainder) == [tag |-> "ExpectedEnd", rest |-> remainder]

DuplicatePointerLayout(address_space) ==
    [tag |-> "DuplicatePointerLayout", address_space |-> address_space]

ExpectedNonZeroSize(c) == [tag |-> "ExpectedNonZeroSize", char |-> c]

MissingManglingValue == [tag |-> "MissingManglingValue"]

InvalidManglingValue(c) == [tag |-> "InvalidManglingValue", char |-> c]

EmptySpecification == [tag |-> "EmptySpecification"]

-----------------------------------------------------------------------------
(* The sub-field parsers of Layout::try_from.  A ParseResult is             *)
(* [ok |-> TRUE, rest, value] for Ok((rest, value)) or [ok |-> FALSE, err]. *)

POk(rest, value) == [ok |-> TRUE, rest |-> rest, value |-> value]

PErr(e) == [ok |-> FALSE, err |-> e]

\* s[n..]
SliceFrom(s, n) == SubSeq(s, n + 1, Len(s))

\* the number of leading characters take_while(is_ascii_digit) yields
RECURSIVE digit_run(_)
digit_run(s) ==
    IF s # <<>> /\ is_ascii_digit(Head(s)) THEN 1 + digit_run(Tail(s)) ELSE 0

\* let value = T::from_str(&digits)?; Ok((&s[parse_count..], value))
integer_result(s, parse_count, value) ==
    IF value.ok
    THEN POk(SliceFrom(s, parse_count), value.value)
    ELSE PErr(InvalidInteger(value.kind))

integer_counted(s, parse_count) ==
    integer_result(s, parse_count, u32_from_str(SubSeq(s, 1, parse_count)))

parse_integer(s) == integer_counted(s, digit_run(s))

\* NonZeroU32::new_unchecked(value) in the place of the checked new
bit_size_unchecked(r) == IF r.ok THEN POk(r.rest, Some(r.value)) ELSE r

\* NonZeroU32::new(value).map(|bits| BitSize { bits })
bit_size_of(r) ==
    IF r.ok
    THEN POk(r.rest, IF r.value = U32Zero THEN None ELSE Some(r.value))
    ELSE r

parse_bit_size(s) == bit_size_of(parse_integer(s))

parse_address_space(s) == parse_integer(s)

\* the match on mangling_option with the arms of 'e' and 'o' exchanged
mangling_of_exchanged(mangling_option, remaining) ==
    CASE mangling_option = "e" -> POk(remaining, "MachO")
      [] mangling_option = "l" -> POk(remaining, "GOFF")
      [] mangling_option = "m" -> POk(remaining, "MIPS")
      [] mangling_option = "o" -> POk(remaining, "ELF")
      [] mangling_option = "x" -> POk(remaining, "WindowsX86COFF")
      [] mangling_option = "w" -> POk(remaining, "WindowsCOFF")
      [] mangling_option = "a" -> POk(remaining, "XCOFF")
      [] OTHER -> PErr(InvalidManglingValue(mangling_option))

\* the match on mangling_option with the arms of 'x' and 'w' exchanged
mangling_of_coff_exchanged(mangling_option, remaining) ==
    CASE mangling_option = "e" -> POk(remaining, "ELF")
      [] mangling_option = "l" -> POk(remaining, "GOFF")
      [] mangling_option = "m" -> POk(remaining, "MIPS")
      [] mangling_option = "o" -> POk(remaining, "MachO")
      [] mangling_option = "x" -> POk(remaining, "WindowsCOFF")
      [] mangling_option = "w" -> POk(remaining, "WindowsX86COFF")
      [] mangling_option = "a" -> POk(remaining, "XCOFF")
      [] OTHER -> PErr(InvalidManglingValue(mangling_option))

\* the match on mangling_option
mangling_of(mangling_option, remaining) ==
    CASE mangling_option = "e" -> POk(remaining, "ELF")
      [] mangling_option = "l" -> POk(remaining, "GOFF")
      [] mangling_option = "m" -> POk(remaining, "MIPS")
      [] mangling_option = "o" -> POk(remaining, "MachO")
      [] mangling_option = "x" -> POk(remaining, "WindowsX86COFF")
      [] mangling_option = "w" -> POk(remaining, "WindowsCOFF")
      [] mangling_option = "a" -> POk(remaining, "XCOFF")
      [] OTHER -> PErr(InvalidManglingValue(mangling_option))

\* the closure of the 'm' arm: one scheme character
parse_mangling_option(s) ==
    IF s = <<>> THEN PErr(MissingManglingValue)
    ELSE mangling_of(Head(s), SliceFrom(s, 1))

\* parser(..): the parser handed to parse_information, called by its name
call_parser(parser, s) ==
    CASE parser = "parse_bit_size" -> parse_bit_size(s)
      [] parser = "parse_mangling_option" -> parse_mangling_option(s)

\* let (remaining, value) = parser(&s[1..])?; Ok((remaining, Some(value)))
some_of(r) == IF r.ok THEN POk(r.rest, Some(r.value)) ELSE r

parse_information(parser, s) ==
    IF s = <<>> THEN POk(<<>>, None)
    ELSE IF Head(s) = ":" THEN some_of(call_parser(parser, Tail(s)))
    ELSE PErr(ExpectedEnd(Tail(s)))

\* (remaining, Some(value)) => Ok((remaining, value)), (_, None) => Err(error())
value_or(r, error) ==
    IF ~r.ok THEN r
    ELSE IF r.value = None THEN PErr(error)
    ELSE POk(r.rest, r.value[1])

parse_information_or(parser, error, s) ==
    value_or(parse_information(parser, s), error)

\* lookup.insert_or_replace(size.ok_or_else(..)?, AlignmentPair { abi, preferred })
primitive_insert(specification, lookup, size, abi, pref) ==
    IF ~pref.ok THEN pref
    ELSE IF size = None THEN PErr(ExpectedNonZeroSize(specification))
    ELSE [ok     |-> TRUE,
          rest   |-> pref.rest,
          lookup |-> insert_or_replace(lookup, size[1],
                        [abi |-> abi.value, preferred |-> flatten(pref.value)])]

primitive_pref(specification, lookup, size, abi) ==
    IF ~abi.ok THEN abi
    ELSE primitive_insert(specification, lookup, size, abi,
                          parse_information("parse_bit_size", abi.rest))

primitive_abi(specification, lookup, size) ==
    IF ~size.ok THEN size
    ELSE primitive_pref(specification, lookup, size.value,
             parse_information_or("parse_bit_size", MissingInformation, size.rest))

\* Ok: [ok, rest, lookup], the map after insert_or_replace
parse_primitive_alignment(specification, lookup, s) ==
    primitive_abi(specification, lookup, parse_bit_size(s))

-----------------------------------------------------------------------------
(* parse_specification: one arm per specifier.  An arm yields the draft     *)
(* after it and either the characters it left or the error it returned:     *)
(* [ok |-> TRUE, layout, rest] or [ok |-> FALSE, layout, err].              *)

AOk(l, rest) == [ok |-> TRUE, layout |-> l, rest |-> rest]

AErr(l, e) == [ok |-> FALSE, layout |-> l, err |-> e]

\* an 'E' arm that sets the endianness of the 'e' arm
arm_E_setting_little(l, s) ==
    AOk([l EXCEPT !.endianness = "Little"], SliceFrom(s, 1))

\* 'E' => { layout.endianness = Endianness::Big; &s[1..] }
arm_E(l, s) == AOk([l EXCEPT !.endianness = "Big"], SliceFrom(s, 1))

\* 'e' => { layout.endianness = Endianness::Little; &s[1..] }
arm_e(l, s) == AOk([l EXCEPT !.endianness = "Little"], SliceFrom(s, 1))

\* layout.stack_alignment = alignment
set_stack_alignment(l, r) ==
    IF r.ok THEN AOk([l EXCEPT !.stack_alignment = r.value], r.rest)
    ELSE AErr(l, r.err)

\* an 'S' arm that takes a size of zero for an error, as the 'p' arm does
arm_S_rejecting_zero(l, information) ==
    IF parse_bit_size(information).ok /\ parse_bit_size(information).value = None
    THEN AErr(l, ExpectedNonZeroSize("S"))
    ELSE set_stack_alignment(l, parse_bit_size(information))

arm_S(l, information) == set_stack_alignment(l, parse_bit_size(information))

\* set_address_space!($name): layout.$name = address_space
set_address_space(l, name, r) ==
    IF ~r.ok THEN AErr(l, r.err)
    ELSE CASE name = "program" ->
                AOk([l EXCEPT !.program_address_space = r.value], r.rest)
           [] name = "global" ->
                AOk([l EXCEPT !.global_address_space = r.value], r.rest)
           [] name = "alloca" ->
                AOk([l EXCEPT !.alloca_address_space = r.value], r.rest)

arm_P(l, information) ==
    set_address_space(l, "program", parse_address_space(information))

\* 'G' => set_address_space!(program_address_space)
arm_G_into_program(l, information) ==
    set_address_space(l, "program", parse_address_space(information))

arm_G(l, information) ==
    set_address_space(l, "global", parse_address_space(information))

arm_A(l, information) ==
    set_address_space(l, "alloca", parse_address_space(information))

\* the peek of the 'p' arm: is an address space written?
peek_address_space(information) ==
    IF information = <<>> THEN PErr(MissingInformation)
    ELSE IF Head(information) = ":" THEN POk(information, VON_NEUMANN_DEFAULT)
    ELSE parse_address_space(information)

\* Ok(_) => remaining, Err(_) => return Err(DuplicatePointerLayout(address_space))
pointer_inserted(l, address_space, ins, remaining) ==
    IF ins.ok THEN AOk([l EXCEPT !.pointer_layouts = ins.map], remaining)
    ELSE AErr([l EXCEPT !.pointer_layouts = ins.map],
              DuplicatePointerLayout(address_space))

\* layout.pointer_layouts.insert(PointerLayout { .. size: size.ok_or_else(..)? .. })
pointer_insert(l, address_space, size, abi, pref, idx) ==
    IF ~idx.ok THEN AErr(l, idx.err)
    ELSE IF size = None THEN AErr(l, ExpectedNonZeroSize("p"))
    ELSE pointer_inserted(l, address_space,
             PointerLayoutMap_insert(l.pointer_layouts,
                 [address_space |-> address_space,
                  alignment     |-> [abi       |-> abi,
                                     preferred |-> flatten(pref.value)],
                  size          |-> size[1],
                  index_size    |-> flatten(idx.value)]),
             idx.rest)

pointer_idx(l, address_space, size, abi, pref) ==
    IF ~pref.ok THEN AErr(l, pref.err)
    ELSE pointer_insert(l, address_space, size, abi, pref,
                        parse_information("parse_bit_size", pref.rest))

pointer_pref(l, address_space, size, abi) ==
    IF ~abi.ok THEN AErr(l, abi.err)
    ELSE pointer_idx(l, address_space, size, abi.value,
                     parse_information("parse_bit_size", abi.rest))

pointer_abi(l, address_space, size) ==
    IF ~size.ok THEN AErr(l, size.err)
    ELSE pointer_pref(l, address_space, size.value,
             parse_information_or("parse_bit_size", MissingInformation, size.rest))

pointer_size(l, as) ==
    IF ~as.ok THEN AErr(l, as.err)
    ELSE pointer_abi(l, as.value,
             parse_information_or("parse_bit_size", MissingInformation, as.rest))

arm_p(l, information) == pointer_size(l, peek_address_space(information))

set_integer_alignments(l, r) ==
    IF r.ok THEN AOk([l EXCEPT !.integer_alignments = r.lookup], r.rest)
    ELSE AErr(l, r.err)

arm_i(l, information) ==
    set_integer_alignments(l,
        parse_primitive_alignment("i", l.integer_alignments, information))

\* the vector arm writing the map of the integer arm
set_vector_into_integer_alignments(l, r) ==
    IF r.ok THEN AOk([l EXCEPT !.integer_alignments = r.lookup], r.rest)
    ELSE AErr(l, r.err)

set_vector_alignments(l, r) ==
    IF r.ok THEN AOk([l EXCEPT !.vector_alignments = r.lookup], r.rest)
    ELSE AErr(l, r.err)

arm_v(l, information) ==
    set_vector_alignments(l,
        parse_primitive_alignment("i", l.vector_alignments, information))

set_float_alignments(l, r) ==
    IF r.ok THEN AOk([l EXCEPT !.float_alignments = r.lookup], r.rest)
    ELSE AErr(l, r.err)

arm_f(l, information) ==
    set_float_alignments(l,
        parse_primitive_alignment("i", l.float_alignments, information))

\* layout.mangling = Some(mangling)
set_mangling(l, r) ==
    IF r.ok THEN AOk([l EXCEPT !.mangling = Some(r.value)], r.rest)
    ELSE AErr(l, r.err)

arm_m(l, information) ==
    set_mangling(l, parse_information_or("parse_mangling_option",
                                         MissingManglingValue, information))

\* let remaining = match kind { ... }
match_kind(l, s, kind, information) ==
    CASE kind = "E" -> arm_E(l, s)
      [] kind = "e" -> arm_e(l, s)
      [] kind = "S" -> arm_S(l, information)
      [] kind = "P" -> arm_P(l, information)
      [] kind = "G" -> arm_G(l, information)
      [] kind = "A" -> arm_A(l, information)
      [] kind = "p" -> arm_p(l, information)
      [] kind = "i" -> arm_i(l, information)
      [] kind = "v" -> arm_v(l, information)
      [] kind = "f" -> arm_f(l, information)
      [] kind = "m" -> arm_m(l, information)
      [] OTHER -> AErr(l, InvalidSpecification(kind))

\* if remaining.is_empty() { Ok(()) } else { Err(ExpectedEnd(remaining)) }
expect_end(m) ==
    IF ~m.ok THEN m
    ELSE IF m.rest = <<>> THEN [ok |-> TRUE, layout |-> m.layout]
    ELSE AErr(m.layout, ExpectedEnd(m.rest))

\* the draft after the token and Ok(()) or Err(e): [ok, layout] or [ok, layout, err]
parse_specification(l, s) ==
    IF s = <<>> THEN AErr(l, EmptySpecification)
    ELSE expect_end(match_kind(l, s, Head(s), SliceFrom(s, 1)))

\* a split that yields the non-empty pieces only
RECURSIVE split_skipping_empty(_, _)
split_skipping_empty(s, sep) ==
    IF s = <<>> THEN <<>>
    ELSE IF Head(s) = sep THEN split_skipping_empty(Tail(s), sep)
    ELSE LET n == CHOOSE k \in 1..Len(s) :
                      /\ \A j \in 1..k : s[j] # sep
                      /\ (k = Len(s) \/ s[k + 1] = sep)
         IN  <<SubSeq(s, 1, n)>> \o split_skipping_empty(SliceFrom(s, n), sep)

\* str::split(sep): the pieces of s between the separators, in order
RECURSIVE split(_, _)
split(s, sep) ==
    IF \E i \in 1..Len(s) : s[i] = sep
    THEN LET i == CHOOSE k \in 1..Len(s) :
                      s[k] = sep /\ \A j \in 1..(k - 1) : s[j] # sep
         IN  <<SubSeq(s, 1, i - 1)>> \o split(SliceFrom(s, i), sep)
    ELSE <<s>>

-----------------------------------------------------------------------------
(* The layout strings tried.  A token is written from a descriptor          *)
(* [kind, head, fields]: the specifier character (or "" for none), what     *)
(* follows it directly, and the ':'-prefixed fields; what is written in one *)
(* place is [num, txt], a decimal number (-1: none) followed by characters. *)

MaxFields == 4

MaxTokens == 2

N(n) == [num |-> n, txt |-> <<>>]

Blank == [num |-> -1, txt |-> <<>>]

T(c) == [num |-> -1, txt |-> <<c>>]

NT(n, c) == [num |-> n, txt |-> <<c>>]

Tok(kind, head, fields) == [kind |-> kind, head |-> head, fields |-> fields]

RECURSIVE Decimal(_)
Decimal(n) ==
    IF n < 10 THEN <<DigitChars[n + 1]>>
    ELSE Decimal(n \div 10) \o <<DigitChars[(n % 10) + 1]>>

RenderField(f) == (IF f.num >= 0 THEN Decimal(f.num) ELSE <<>>) \o f.txt

RECURSIVE RenderFields(_)
RenderFields(fs) ==
    IF fs = <<>> THEN <<>>
    ELSE <<":">> \o RenderField(Head(fs)) \o RenderFields(Tail(fs))

RenderToken(t) ==
    (IF t.kind = "" THEN <<>> ELSE <<t.kind>>)
        \o RenderField(t.head) \o RenderFields(t.fields)

RECURSIVE RenderText(_)
RenderText(ts) ==
    IF Len(ts) = 1 THEN RenderToken(ts[1])
    ELSE RenderToken(Head(ts)) \o <<"-">> \o RenderText(Tail(ts))

SeqsUpTo(S, n) == UNION {[1..k -> S] : k \in 0..n}

NumFields == {Blank, N(0), N(8), N(64), NT(8, "x")}

SchemeFields ==
    {Blank, T("e"), T("l"), T("m"), T("o"), T("x"), T("w"), T("a"), T("z"),
     N(8), [num |-> -1, txt |-> <<"e", "x">>]}

PointerTokens ==
    {Tok("p", h, fs) : h \in {Blank, N(0), N(1), T("x")},
                       fs \in SeqsUpTo(NumFields, MaxFields)}

PrimitiveTokens ==
    {Tok(k, h, fs) : k \in {"i", "v", "f", "n"},
                     h \in {Blank, N(0), N(8), N(64), T("x")},
                     fs \in SeqsUpTo(NumFields, MaxFields - 1)}

ScalarTokens ==
    {Tok(k, h, fs) : k \in {"S", "P", "G", "A", "E", "e", "a", "F", "x", ":", "8"},
                     h \in {Blank, N(0), N(1), N(128), T("x"), NT(8, "x")},
                     fs \in SeqsUpTo(NumFields, MaxFields - 3)}

ManglingTokens ==
    {Tok("m", h, fs) : h \in {Blank, T("e"), T("z"), N(8)},
                       fs \in SeqsUpTo(SchemeFields, MaxFields - 3)}

EmptyToken == Tok("", Blank, <<>>)

SingleTokens ==
    PointerTokens \cup PrimitiveTokens \cup ScalarTokens \cup ManglingTokens
        \cup {EmptyToken}

\* the tokens combined into strings of several tokens
Pool ==
    {Tok("e", Blank, <<>>), Tok("E", Blank, <<>>),
     Tok("S", N(128), <<>>), Tok("S", N(0), <<>>),
     Tok("P", N(1), <<>>), Tok("P", N(2), <<>>),
     Tok("G", N(1), <<>>), Tok("A", N(2), <<>>),
     Tok("m", Blank, <<T("e")>>), Tok("m", Blank, <<T("o")>>),
     Tok("p", Blank, <<N(64), N(64)>>), Tok("p", Blank, <<N(32), N(32)>>),
     Tok("p", N(0), <<N(16), N(16)>>), Tok("p", N(1), <<N(32), N(32)>>),
     Tok("p", N(1), <<N(64), N(64), N(64), N(32)>>),
     Tok("i", N(64), <<N(64)>>), Tok("i", N(64), <<N(32)>>),
     Tok("i", N(24), <<N(32), N(64)>>),
     Tok("v", N(64), <<N(32)>>), Tok("v", N(64), <<N(64), N(128)>>),
     Tok("v", N(256), <<N(256)>>),
     Tok("f", N(80), <<N(128)>>), Tok("f", N(80), <<N(64)>>),
     Tok("f", N(64), <<N(32), N(64)>>),
     Tok("n", N(8), <<N(16)>>),
     EmptyToken, Tok("x", Blank, <<>>), Tok("i", N(0), <<N(8)>>),
     Tok("S", NT(8, "x"), <<>>), Tok("i", N(32), <<Blank>>)}

Scenario ==
    <<Tok("e", Blank, <<>>), Tok("m", Blank, <<T("e")>>),
      Tok("p", Blank, <<N(64), N(64)>>),
      Tok("i", N(1), <<N(8), N(8)>>), Tok("i", N(8), <<N(8), N(8)>>),
      Tok("i", N(16), <<N(16), N(16)>>), Tok("i", N(32), <<N(32), N(32)>>),
      Tok("i", N(64), <<N(64), N(64)>>), Tok("f", N(80), <<N(128)>>),
      Tok("n", N(8), <<N(16), N(32), N(64)>>), Tok("S", N(128), <<>>)>>

\* a run of characters written out: the numbers beyond 2^31, and letters
D(ds) == [num |-> -1, txt |-> ds]

\* 2^32 - 1, the largest u32, in decimal
U32_MAX_DIGITS == <<"4", "2", "9", "4", "9", "6", "7", "2", "9", "5">>

\* 2^32 - 1, the same with a leading zero, 2^32, 2^32 + 64, 2^32 + 65536,
\* ten nines, eleven digits, and "foo"
Runs ==
    {U32_MAX_DIGITS,
     <<"0">> \o U32_MAX_DIGITS,
     <<"4", "2", "9", "4", "9", "6", "7", "2", "9", "6">>,
     <<"4", "2", "9", "4", "9", "6", "7", "3", "6", "0">>,
     <<"4", "2", "9", "5", "0", "3", "2", "8", "3", "2">>,
     <<"9", "9", "9", "9", "9", "9", "9", "9", "9", "9">>,
     U32_MAX_DIGITS \o <<"0">>,
     <<"f", "o", "o">>}

\* the tokens with one such run in a place where a number is read
RunTokens ==
    {Tok(k, D(ds), <<>>) : k \in {"S", "P", "G", "A"}, ds \in Runs}
        \cup {Tok("p", D(ds), <<N(64), N(64)>>) : ds \in Runs}
        \cup {Tok("p", h, <<D(ds), N(64)>>) : h \in {Blank, N(1)}, ds \in Runs}
        \cup {Tok("p", Blank, <<N(64), D(ds)>>) : ds \in Runs}
        \cup {Tok("p", Blank, <<N(64), N(64), D(ds)>>) : ds \in Runs}
        \cup {Tok("p", Blank, <<N(64), N(64), N(64), D(ds)>>) : ds \in Runs}
        \cup {Tok(k, D(ds), <<N(8)>>) : k \in {"i", "v", "f"}, ds \in Runs}
        \cup {Tok(k, N(8), <<D(ds)>>) : k \in {"i", "v", "f"}, ds \in Runs}
        \cup {Tok(k, N(8), <<N(8), D(ds)>>) : k \in {"i", "v", "f"}, ds \in Runs}

\* an empty token between two tokens: a doubled '-'
Doubled == {<<a, EmptyToken, b>> : a \in Pool, b \in Pool}

Inputs ==
    {<<t>> : t \in SingleTokens \cup RunTokens}
        \cup UNION {[1..k -> Pool] : k \in 2..MaxTokens}
        \cup Doubled
        \cup {Scenario}

-----------------------------------------------------------------------------
(* Layout::try_from *)

Pending == [tag |-> "Pending"]

Ok(l) == [tag |-> "Ok", layout |-> l]

Err(e) == [tag |-> "Err", error |-> e]

\* the three default tables, at their places
StaticTables ==
    (integer_defaults :> INTEGER_ALIGNMENT_DEFAULTS) @@
    (float_defaults :> FLOAT_ALIGNMENT_DEFAULTS) @@
    (vector_defaults :> VECTOR_ALIGNMENT_DEFAULTS)

\* no block and no identifier has been made
NoObjects ==
    /\ instructions = <<>>
    /\ terminated = <<>>
    /\ held = <<>>

\* no caller of the maps has done anything
NoCalls ==
    /\ pointers = PointerLayoutMap_all_default
    /\ tables = StaticTables
    /\ owned = <<>>
    /\ calls = <<>>

Init ==
    /\ input \in Inputs
    /\ text = RenderText(input)
    /\ specifications = split(text, "-")
    /\ layout = Layout_default
    /\ result = Pending
    /\ pc = "loop"
    /\ NoCalls
    /\ NoObjects

\* parse_specification(&mut layout, &buffer) with the error kept and the loop
\* carried on, in the place of the return of `?`
Parsed_recovering(r) ==
    /\ layout' = r.layout
    /\ specifications' = Tail(specifications)
    /\ IF r.ok
       THEN UNCHANGED <<result, pc>>
       ELSE result' = Err(r.err) /\ UNCHANGED pc

\* a loop that parses the token and leaves it in the iterator
Parsed_without_advance(r) ==
    /\ layout' = r.layout
    /\ UNCHANGED specifications
    /\ IF r.ok
       THEN UNCHANGED <<result, pc>>
       ELSE result' = Err(r.err) /\ pc' = "done"

\* parse_specification(&mut layout, &buffer)?
Parsed(r) ==
    /\ layout' = r.layout
    /\ specifications' = Tail(specifications)
    /\ IF r.ok
       THEN UNCHANGED <<result, pc>>
       ELSE result' = Err(r.err) /\ pc' = "done"

\* one turn of the while loop: specifications.next() and parse_specification
ParseNext ==
    /\ pc = "loop"
    /\ specifications # <<>>
    /\ Parsed(parse_specification(layout, Head(specifications)))
    /\ UNCHANGED <<input, text, pointers, tables, owned, calls, objectVars>>

\* the iterator is exhausted: Ok(layout)
ReturnOk ==
    /\ pc = "loop"
    /\ specifications = <<>>
    /\ result' = Ok(layout)
    /\ pc' = "done"
    /\ UNCHANGED <<input, text, specifications, layout>>
    /\ UNCHANGED <<pointers, tables, owned, calls, objectVars>>

Next == ParseNext \/ ReturnOk

Spec == Init /\ [][Next]_vars

-----------------------------------------------------------------------------
(* The same call as a thread that keeps running.  What parse_specification *)
(* returns in each turn of the loop is written down in `calls` before the  *)
(* first turn, turn by turn from the default draft, and a turn reads its   *)
(* entry, so that whether a turn can be taken is decided without parsing.  *)

\* what parse_specification returns for each token, from the draft l on
RECURSIVE Turns(_, _)
Turns(l, specs) ==
    IF specs = <<>> THEN <<>>
    ELSE <<parse_specification(l, Head(specs))>>
             \o Turns(parse_specification(l, Head(specs)).layout, Tail(specs))

InitFair ==
    /\ input \in Inputs
    /\ text = RenderText(input)
    /\ specifications = split(text, "-")
    /\ layout = Layout_default
    /\ result = Pending
    /\ pc = "loop"
    /\ pointers = PointerLayoutMap_all_default
    /\ tables = StaticTables
    /\ owned = <<>>
    /\ calls = Turns(Layout_default, split(RenderText(input), "-"))
    /\ NoObjects

\* one turn of the while loop
ParseNextFair ==
    /\ pc = "loop"
    /\ specifications # <<>>
    /\ Parsed(calls[(Len(calls) - Len(specifications)) + 1])
    /\ UNCHANGED <<input, text, pointers, tables, owned, calls, objectVars>>

NextFair == ParseNextFair \/ ReturnOk

\* the thread runs on: a turn of the loop or the return that can be taken is
\* taken
SpecFair == InitFair /\ [][NextFair]_vars /\ WF_vars(NextFair)

-----------------------------------------------------------------------------
(* A caller of PointerLayoutMap: a map made by all_default() or            *)
(* from_layout(), and insert calls on it.                                  *)

MaxCalls == 3

parserVars == <<input, text, specifications, layout, result, pc>>

\* no try_from is running
ParserIdle ==
    /\ input = <<>>
    /\ text = <<>>
    /\ specifications = <<>>
    /\ layout = Layout_default
    /\ result = Pending
    /\ pc = "idle"

\* the pointer layouts the caller has at hand
PointerLayouts ==
    {[address_space |-> a,
      size          |-> size,
      alignment     |-> AlignmentPair_new(size),
      index_size    |-> None] :
        a \in {U32(0), U32(1), U32(2)}, size \in {SIZE_32, SIZE_64}}
        \cup {[address_space |-> U32(1),
               size          |-> SIZE_64,
               alignment     |-> AlignmentPair_new(SIZE_64),
               index_size    |-> Some(SIZE_32)]}

\* the address spaces the caller asks for
AddressSpaces == {U32(0), U32(1), U32(2), U32(3)}

\* let mut map = PointerLayoutMap::all_default()
InitPointers == ParserIdle /\ NoCalls /\ NoObjects

\* the call as the caller saw it: the map before and after, Ok or Err and
\* the layout returned in it
Inserted(pl, ins) ==
    /\ pointers' = ins.map
    /\ calls' = Append(calls,
                    [op     |-> "insert",
                     arg    |-> pl,
                     before |-> pointers,
                     after  |-> ins.map,
                     ok     |-> ins.ok,
                     ret    |-> IF ins.ok THEN ins.value ELSE ins.existing])

\* map.insert(pl)
CallInsert ==
    /\ Len(calls) < MaxCalls
    /\ \E pl \in PointerLayouts :
          Inserted(pl, PointerLayoutMap_insert(pointers, pl))
    /\ UNCHANGED <<parserVars, tables, owned, objectVars>>

\* map = PointerLayoutMap::from_layout(pl)
CallFromLayout ==
    /\ Len(calls) < MaxCalls
    /\ \E pl \in PointerLayouts :
          /\ pointers' = PointerLayoutMap_from_layout(pl)
          /\ calls' = Append(calls,
                          [op     |-> "from_layout",
                           arg    |-> pl,
                           before |-> pointers,
                           after  |-> PointerLayoutMap_from_layout(pl),
                           ok     |-> TRUE,
                           ret    |-> pl])
    /\ UNCHANGED <<parserVars, tables, owned, objectVars>>

\* the call as the caller saw it: the map is borrowed, not changed
GotOrDefault(address_space, ret) ==
    /\ pointers' = pointers
    /\ calls' = Append(calls,
                    [op     |-> "get_or_default",
                     arg    |-> address_space,
                     before |-> pointers,
                     after  |-> pointers,
                     ok     |-> TRUE,
                     ret    |-> ret])

\* map.get_or_default(address_space)
CallGetOrDefault ==
    /\ Len(calls) < MaxCalls
    /\ \E address_space \in AddressSpaces :
          GotOrDefault(address_space,
              PointerLayoutMap_get_or_default(pointers, address_space))
    /\ UNCHANGED <<parserVars, tables, owned, objectVars>>

NextPointers == CallInsert \/ CallFromLayout \/ CallGetOrDefault

SpecPointers == InitPointers /\ [][NextPointers]_vars

-----------------------------------------------------------------------------
(* A caller of Layout::default(), Layout::try_from and the maps of the     *)
(* layouts it owns.  `tables` is the memory the maps live in: the three    *)
(* statics at their places, every other map at the place it was cloned to. *)

\* the j-th place handed out during call number n + 1
Place(n, j) == (Cardinality(DOMAIN StaticTables) * (n + 1)) + j

\* a clone that is the original once more
clone_shared(store, at, place) == [tables |-> store, at |-> at]

\* <PrimitiveAlignmentMap as Clone>::clone of the map at `at` into `place`
clone(store, at, place) ==
    [tables |-> store @@ (place :> store[at]), at |-> place]

\* a Layout::default() whose maps are the three statics themselves
Layout_default_borrowed(store, n) ==
    [tables |-> store,
     maps   |-> [integer_alignments |-> integer_defaults,
                 vector_alignments  |-> vector_defaults,
                 float_alignments   |-> float_defaults]]

\* Layout::default(): the memory after it and the places of the three maps
Layout_default_in(store, n) ==
    LET i == clone(store, integer_defaults, Place(n, 1))
        v == clone(i.tables, vector_defaults, Place(n, 2))
        f == clone(v.tables, float_defaults, Place(n, 3))
    IN  [tables |-> f.tables,
         maps   |-> [integer_alignments |-> i.at,
                     vector_alignments  |-> v.at,
                     float_alignments   |-> f.at]]

\* the Layout whose maps are at the places h
Deref(store, h) ==
    [Layout_default EXCEPT !.integer_alignments = store[h.integer_alignments],
                           !.vector_alignments = store[h.vector_alignments],
                           !.float_alignments = store[h.float_alignments]]

\* the memory after the maps at the places h have become those of l
Written_back(store, h, l) ==
    [place \in DOMAIN store |->
        IF place = h.integer_alignments THEN l.integer_alignments
        ELSE IF place = h.vector_alignments THEN l.vector_alignments
        ELSE IF place = h.float_alignments THEN l.float_alignments
        ELSE store[place]]

\* drop(layout): the memory without the maps at the places h (a static is
\* never freed)
Dropped(store, h) ==
    [place \in DOMAIN store \
        ({h.integer_alignments, h.vector_alignments, h.float_alignments}
            \ DOMAIN StaticTables) |-> store[place]]

\* the while loop of try_from, from a draft on to the return
RECURSIVE try_from_loop(_, _)
RECURSIVE try_from_next(_, _)
try_from_next(r, specs) ==
    IF r.ok THEN try_from_loop(r.layout, specs) ELSE r

try_from_loop(l, specs) ==
    IF specs = <<>> THEN [ok |-> TRUE, layout |-> l]
    ELSE try_from_next(parse_specification(l, Head(specs)), Tail(specs))

\* the sizes and alignments the caller has at hand
ApiSizes == {SIZE_64, from_bytes(3)}

ApiAlignments == {AlignmentPair_new(SIZE_8), AlignmentPair_new(SIZE_32)}

MapFields == {"integer_alignments", "vector_alignments", "float_alignments"}

\* the strings the caller parses: "i64:32", "v64:32-f128:64", "f80:128-i8:16-x"
ApiInputs ==
    {<<Tok("i", N(64), <<N(32)>>)>>,
     <<Tok("v", N(64), <<N(32)>>), Tok("f", N(128), <<N(64)>>)>>,
     <<Tok("f", N(80), <<N(128)>>), Tok("i", N(8), <<N(16)>>),
       Tok("x", Blank, <<>>)>>}

InitTables == ParserIdle /\ NoCalls /\ NoObjects

Defaulted(d) ==
    /\ tables' = d.tables
    /\ owned' = Append(owned, d.maps)
    /\ calls' = Append(calls,
                    [op     |-> "default",
                     maps   |-> d.maps,
                     layout |-> Deref(d.tables, d.maps)])

\* let layout = Layout::default()
CallDefault ==
    /\ Len(calls) < MaxCalls
    /\ Defaulted(Layout_default_in(tables, Len(calls)))
    /\ UNCHANGED <<parserVars, pointers, objectVars>>

\* Ok(layout): the caller owns it; Err(e): the draft was dropped
Returned(d, txt, r) ==
    /\ tables' = IF r.ok THEN Written_back(d.tables, d.maps, r.layout)
                 ELSE Dropped(Written_back(d.tables, d.maps, r.layout), d.maps)
    /\ owned' = IF r.ok THEN Append(owned, d.maps) ELSE owned
    /\ calls' = Append(calls,
                    [op |-> "try_from", text |-> txt, maps |-> d.maps, ok |-> r.ok])

TriedFrom(d, txt) ==
    Returned(d, txt, try_from_loop(Deref(d.tables, d.maps), split(txt, "-")))

\* let r = Layout::try_from(txt)
CallTryFrom ==
    /\ Len(calls) < MaxCalls
    /\ \E ts \in ApiInputs :
          TriedFrom(Layout_default_in(tables, Len(calls)), RenderText(ts))
    /\ UNCHANGED <<parserVars, pointers, objectVars>>

TryInserted(place, size, alignment, r) ==
    /\ tables' = [tables EXCEPT ![place] = r.map]
    /\ calls' = Append(calls,
                    [op        |-> "try_insert",
                     at        |-> place,
                     size      |-> size,
                     alignment |-> alignment,
                     ok        |-> r.ok,
                     ret       |-> IF r.ok THEN alignment ELSE r.existing,
                     before    |-> tables[place],
                     after     |-> r.map])

\* layout.<map>.try_insert(size, alignment) on a layout the caller owns
CallTryInsert ==
    /\ Len(calls) < MaxCalls
    /\ \E k \in 1..Len(owned), field \in MapFields,
          size \in ApiSizes, alignment \in ApiAlignments :
          TryInserted(owned[k][field], size, alignment,
                      try_insert(tables[owned[k][field]], size, alignment))
    /\ UNCHANGED <<parserVars, pointers, owned, objectVars>>

Replaced(place, size, alignment, after) ==
    /\ tables' = [tables EXCEPT ![place] = after]
    /\ calls' = Append(calls,
                    [op        |-> "insert_or_replace",
                     at        |-> place,
                     size      |-> size,
                     alignment |-> alignment,
                     ok        |-> TRUE,
                     ret       |-> alignment,
                     before    |-> tables[place],
                     after     |-> after])

\* layout.<map>.insert_or_replace(size, alignment) on a layout the caller owns
CallInsertOrReplace ==
    /\ Len(calls) < MaxCalls
    /\ \E k \in 1..Len(owned), field \in MapFields,
          size \in ApiSizes, alignment \in ApiAlignments :
          Replaced(owned[k][field], size, alignment,
                   insert_or_replace(tables[owned[k][field]], size, alignment))
    /\ UNCHANGED <<parserVars, pointers, owned, objectVars>>

NextTables ==
    CallDefault \/ CallTryFrom \/ CallTryInsert \/ CallInsertOrReplace

SpecTables == InitTables /\ [][NextTables]_vars

-----------------------------------------------------------------------------
(* What the claims are stated in: the shape of the tokens written.          *)

Done == pc = "done"

Succeeded == Done /\ result.tag = "Ok"

FailedWith(e) == Done /\ result.tag = "Err" /\ result.error = e

\* the number of tokens taken from the iterator so far
Taken == Len(input) - Len(specifications)

\* a decimal number and nothing else
IsNum(f) == f.num >= 0 /\ f.txt = <<>>

AllNum(fs) == \A i \in 1..Len(fs) : IsNum(fs[i])

\* the Option<BitSize> a written number stands for
Bits(n) == IF n = 0 THEN None ELSE Some(U32(n))

\* p[A]:S:B[:P[:I]] with S non-zero
WellFormedPointer(t) ==
    /\ t.kind = "p"
    /\ t.head = Blank \/ IsNum(t.head)
    /\ Len(t.fields) \in 2..4
    /\ AllNum(t.fields)
    /\ t.fields[1].num > 0

\* the address space a p token designates
SpaceOf(t) == IF t.head = Blank THEN U32(0) ELSE U32(t.head.num)

\* iN:B[:P], vN:B[:P], fN:B[:P] with N non-zero
WellFormedPrimitive(t) ==
    /\ t.kind \in {"i", "v", "f"}
    /\ IsNum(t.head) /\ t.head.num > 0
    /\ Len(t.fields) \in 1..2
    /\ AllNum(t.fields)

\* the alignment pair a well-formed i, v or f token writes
PairOf(t) ==
    [abi       |-> Bits(t.fields[1].num),
     preferred |-> IF Len(t.fields) >= 2 THEN Bits(t.fields[2].num) ELSE None]

\* the map of a layout an i, v or f token writes into
MapOf(l, kind) ==
    CASE kind = "i" -> l.integer_alignments
      [] kind = "v" -> l.vector_alignments
      [] kind = "f" -> l.float_alignments

\* n<w1>:..:<wk> with non-zero widths
WellFormedNative(t) ==
    /\ t.kind = "n"
    /\ IsNum(t.head) /\ t.head.num > 0
    /\ AllNum(t.fields)
    /\ \A i \in 1..Len(t.fields) : t.fields[i].num > 0

SchemeChars == {"e", "l", "m", "o", "x", "w", "a"}

SchemeOf(c) ==
    CASE c = "e" -> "ELF"
      [] c = "l" -> "GOFF"
      [] c = "m" -> "MIPS"
      [] c = "o" -> "MachO"
      [] c = "x" -> "WindowsX86COFF"
      [] c = "w" -> "WindowsCOFF"
      [] c = "a" -> "XCOFF"

WellFormedScalar(t) ==
    \/ t.kind \in {"E", "e"} /\ t.head = Blank /\ t.fields = <<>>
    \/ t.kind \in {"S", "P", "G", "A"} /\ IsNum(t.head) /\ t.fields = <<>>
    \/ /\ t.kind = "m" /\ t.head = Blank /\ Len(t.fields) = 1
       /\ t.fields[1].num = -1 /\ Len(t.fields[1].txt) = 1
       /\ t.fields[1].txt[1] \in SchemeChars

WellFormed(t) ==
    \/ WellFormedPointer(t)
    \/ WellFormedPrimitive(t)
    \/ WellFormedNative(t)
    \/ WellFormedScalar(t)

AllWellFormed == \A i \in 1..Len(input) : WellFormed(input[i])

\* two p tokens for one address space, the second at position j
DuplicateAt(j) ==
    /\ WellFormedPointer(input[j])
    /\ \E i \in 1..(j - 1) :
          WellFormedPointer(input[i]) /\ SpaceOf(input[i]) = SpaceOf(input[j])

-----------------------------------------------------------------------------
(* The claims *)

\* C1: a string of well-formed tokens with two p tokens for the same address
\* space (written or omitted) fails with DuplicatePointerLayout of that
\* address space, also when the first of the two is the first p token.
C1_DuplicatePointerRejected ==
    (Done /\ AllWellFormed /\ \E j \in 1..Len(input) : DuplicateAt(j)) =>
        \E j \in 1..Len(input) :
            /\ DuplicateAt(j)
            /\ \A k \in 1..(j - 1) : ~DuplicateAt(k)
            /\ FailedWith(DuplicatePointerLayout(SpaceOf(input[j])))

\* C2: after a successful parse every p token p[A]:S:B[:P[:I]] (its numbers
\* non-zero) is stored: get(A) is a layout for A with size S, ABI alignment
\* B, preferred alignment P (B when omitted), index size I (S when omitted),
\* and the map is not all-default.
C2_PointerLayoutStored ==
    Succeeded =>
        \A i \in 1..Len(input) :
            (WellFormedPointer(input[i])
                /\ \A k \in 1..Len(input[i].fields) : input[i].fields[k].num > 0) =>
            LET t   == input[i]
                got == PointerLayoutMap_get(result.layout.pointer_layouts, SpaceOf(t))
            IN  /\ ~PointerLayoutMap_is_all_default(result.layout.pointer_layouts)
                /\ got # None
                /\ got[1].address_space = SpaceOf(t)
                /\ got[1].size = U32(t.fields[1].num)
                /\ abi_alignment(got[1].alignment) = U32(t.fields[2].num)
                /\ preferred_alignment(got[1].alignment) =
                      U32(t.fields[IF Len(t.fields) >= 3 THEN 3 ELSE 2].num)
                /\ index_size(got[1]) =
                      U32(t.fields[IF Len(t.fields) >= 4 THEN 4 ELSE 1].num)

\* the last token of its kind and size in the string
LastOfItsSize(i) ==
    \A j \in (i + 1)..Len(input) :
        ~(WellFormedPrimitive(input[j]) /\ input[j].kind = input[i].kind
            /\ input[j].head = input[i].head)

C4_Scenario ==
    (Done /\ input = Scenario) =>
        /\ Succeeded
        /\ result.layout.endianness = "Little"
        /\ result.layout.mangling = Some("MachO")
        /\ U32(0) \in DOMAIN result.layout.pointer_layouts
        /\ result.layout.pointer_layouts[U32(0)].size = U32(64)
        /\ abi_alignment(result.layout.pointer_layouts[U32(0)].alignment) = U32(64)
        /\ U32(80) \in DOMAIN result.layout.float_alignments
        /\ abi_alignment(result.layout.float_alignments[U32(80)]) = U32(128)
        /\ result.layout.native_integer_widths = <<U32(8), U32(16), U32(32), U32(64)>>
        /\ result.layout.stack_alignment = Some(U32(128))

SpecifierChars ==
    {"E", "e", "S", "P", "G", "A", "p", "i", "v", "f", "a", "F", "m", "n"}

\* the token just taken was rejected as an invalid specification
RejectedAsInvalid ==
    Done /\ result.tag = "Err" /\ result.error.tag = "InvalidSpecification"

\* C5: a token is rejected with InvalidSpecification(c) exactly when its first
\* character c is none of E e S P G A p i v f a F m n.
C5_InvalidSpecificationIff ==
    \A k \in 1..Len(input) :
        (Taken = k /\ input[k].kind # "") =>
            /\ input[k].kind \notin SpecifierChars =>
                  FailedWith(InvalidSpecification(input[k].kind))
            /\ input[k].kind \in SpecifierChars => ~RejectedAsInvalid

\* the widths an n token names, in the order written
WidthsOf(t) ==
    <<U32(t.head.num)>> \o [i \in 1..Len(t.fields) |-> U32(t.fields[i].num)]

\* the widths named by the n tokens among the first k tokens
RECURSIVE WidthsUpTo(_)
WidthsUpTo(k) ==
    IF k = 0 THEN <<>>
    ELSE WidthsUpTo(k - 1)
            \o (IF input[k].kind = "n" THEN WidthsOf(input[k]) ELSE <<>>)

\* C6: a token n<w1>:..:<wk> of non-zero widths parses and appends w1..wk, in
\* the order written, to native_integer_widths.
C6_NativeWidthsAppended ==
    \A k \in 1..Len(input) :
        (Taken = k /\ WellFormedNative(input[k])) =>
            /\ result.tag # "Err"
            /\ layout.native_integer_widths = WidthsUpTo(k)

\* one character and nothing else
IsChar(f) == f.num = -1 /\ Len(f.txt) = 1

\* the mangling the first k tokens leave in the draft
RECURSIVE ManglingUpTo(_)
ManglingUpTo(k) ==
    IF k = 0 THEN None
    ELSE IF input[k].kind = "m" /\ WellFormedScalar(input[k])
         THEN Some(SchemeOf(input[k].fields[1].txt[1]))
         ELSE ManglingUpTo(k - 1)

\* C7 as stated: the scheme character directly follows the m: "me" sets ELF,
\* "mz" fails with InvalidManglingValue('z'), "m" with MissingManglingValue.
C7_SchemeDirectlyAfterM ==
    \A k \in 1..Len(input) :
        (Taken = k /\ input[k].kind = "m" /\ input[k].fields = <<>>) =>
            /\ input[k].head = Blank => FailedWith(MissingManglingValue)
            /\ (IsChar(input[k].head) /\ input[k].head.txt[1] \in SchemeChars) =>
                  /\ result.tag # "Err"
                  /\ layout.mangling = Some(SchemeOf(input[k].head.txt[1]))
            /\ (IsChar(input[k].head) /\ input[k].head.txt[1] \notin SchemeChars) =>
                  FailedWith(InvalidManglingValue(input[k].head.txt[1]))

\* C7, amended: the scheme character is a ':'-separated field.  "m:c" sets the
\* mangling of c for a scheme character c and fails with
\* InvalidManglingValue(c) for any other character; "m" fails with
\* MissingManglingValue; an m directly followed by a character other than ':'
\* is rejected and sets no mangling.
C7_SchemeAfterColon ==
    \A k \in 1..Len(input) :
        (Taken = k /\ input[k].kind = "m") =>
            /\ (input[k].head = Blank /\ input[k].fields = <<>>) =>
                  FailedWith(MissingManglingValue)
            /\ (input[k].head = Blank /\ Len(input[k].fields) = 1
                    /\ IsChar(input[k].fields[1])) =>
                  IF input[k].fields[1].txt[1] \in SchemeChars
                  THEN /\ result.tag # "Err"
                       /\ layout.mangling = Some(SchemeOf(input[k].fields[1].txt[1]))
                  ELSE FailedWith(InvalidManglingValue(input[k].fields[1].txt[1]))
            /\ input[k].head # Blank =>
                  /\ Done /\ result.tag = "Err"
                  /\ layout.mangling = ManglingUpTo(k - 1)

\* C7 happens: "m:e" has parsed and the mangling is ELF.
C7_Witness ==
    /\ Succeeded
    /\ input = <<Tok("m", Blank, <<T("e")>>)>>
    /\ result.layout.mangling = Some("ELF")

\* the fields a specifier takes after its size or address space
Accepts(kind) ==
    CASE kind = "p" -> 4
      [] kind \in {"i", "v", "f"} -> 2
      [] OTHER -> 0

\* the fields among them that must be written
Requires(kind) == IF kind = "p" THEN 2 ELSE 1

\* what directly follows the letter of a p, i, v or f token is well-formed
HeadFits(t) ==
    IF t.kind = "p" THEN t.head = Blank \/ IsNum(t.head)
    ELSE IsNum(t.head) /\ t.head.num > 0

\* the fields before position j are non-zero numbers
CleanBefore(t, j) ==
    \A i \in 1..(j - 1) : IsNum(t.fields[i]) /\ t.fields[i].num > 0

\* a ':' followed by an empty field, or the end before a required field
LacksInformation(t) ==
    /\ t.kind \in {"p", "i", "v", "f"}
    /\ HeadFits(t)
    /\ \/ \E j \in 1..Len(t.fields) :
             j <= Accepts(t.kind) /\ CleanBefore(t, j) /\ t.fields[j] = Blank
       \/ Len(t.fields) < Requires(t.kind) /\ CleanBefore(t, Len(t.fields) + 1)

\* C8: a token in which a ':' is followed by an empty field, or which ends
\* before a required field, fails with MissingInformation.
C8_EmptyFieldIsMissingInformation ==
    \A k \in 1..Len(input) :
        (Taken = k /\ LacksInformation(input[k])) =>
            FailedWith(MissingInformation)

\* characters are written after the number of field j, which the specifier takes
GarbageAt(t, j) ==
    /\ t.kind \in {"p", "i", "v", "f"}
    /\ HeadFits(t)
    /\ j \in 1..Len(t.fields) /\ j <= Accepts(t.kind)
    /\ CleanBefore(t, j)
    /\ t.fields[j].num > 0 /\ t.fields[j].txt # <<>>

\* more fields are written than the specifier takes
TooManyFields(t) ==
    /\ t.kind \in {"p", "i", "v", "f"}
    /\ HeadFits(t)
    /\ Len(t.fields) > Accepts(t.kind)
    /\ CleanBefore(t, Accepts(t.kind) + 1)

\* characters follow an E or e, or the number of an S, P, G or A
ScalarGarbage(t) ==
    \/ t.kind \in {"E", "e"} /\ (t.head # Blank \/ t.fields # <<>>)
    \/ /\ t.kind \in {"S", "P", "G", "A"} /\ t.head.num >= 0
       /\ (t.head.txt # <<>> \/ t.fields # <<>>)

\* C9: when characters remain in a token after the fields its specifier takes,
\* the parse fails with ExpectedEnd of exactly the characters left, from the
\* first one not consumed.
C9_ExpectedEndCarriesLeftover ==
    \A k \in 1..Len(input) :
        Taken = k =>
            /\ \A j \in 1..Len(input[k].fields) :
                  GarbageAt(input[k], j) =>
                      FailedWith(ExpectedEnd(
                          input[k].fields[j].txt
                              \o RenderFields(SliceFrom(input[k].fields, j))))
            /\ TooManyFields(input[k]) =>
                  FailedWith(ExpectedEnd(
                      RenderFields(SliceFrom(input[k].fields, Accepts(input[k].kind)))))
            /\ ScalarGarbage(input[k]) =>
                  FailedWith(ExpectedEnd(
                      (IF input[k].kind \in {"E", "e"}
                       THEN RenderField(input[k].head) ELSE input[k].head.txt)
                          \o RenderFields(input[k].fields)))

\* the size of a p, i, v or f token is 0 and its other fields are numbers
ZeroSize(t) ==
    \/ /\ t.kind \in {"i", "v", "f"}
       /\ t.head = N(0)
       /\ Len(t.fields) \in 1..2 /\ AllNum(t.fields)
    \/ /\ t.kind = "p"
       /\ t.head = Blank \/ IsNum(t.head)
       /\ Len(t.fields) \in 2..4 /\ AllNum(t.fields)
       /\ t.fields[1].num = 0

\* C10: a p, i, v or f token of size 0 fails with ExpectedNonZeroSize of its
\* own specifier letter, and no entry is stored for a zero size.
C10_ZeroSizeNamesSpecifier ==
    \A k \in 1..Len(input) :
        (Taken = k /\ ZeroSize(input[k])) =>
            /\ FailedWith(ExpectedNonZeroSize(input[k].kind))
            /\ U32Zero \notin DOMAIN layout.integer_alignments
            /\ U32Zero \notin DOMAIN layout.vector_alignments
            /\ U32Zero \notin DOMAIN layout.float_alignments

-----------------------------------------------------------------------------
(* The claims on the token loop and on the numbers read *)

\* parse_specification accepts the token on its own
AcceptedAlone(t) == parse_specification(Layout_default, RenderToken(t)).ok

\* C11: the empty string, and every string with an empty token (a leading, a
\* trailing or a doubled '-') all of whose tokens before the first empty one
\* are tokens the parser accepts, fails with EmptySpecification: the loop
\* reaches the empty token and stops there.
C11_EmptyTokenRejected ==
    \A k \in 1..Len(input) :
        (/\ Done
         /\ input[k] = EmptyToken
         /\ \A j \in 1..(k - 1) : AcceptedAlone(input[j])) =>
            /\ FailedWith(EmptySpecification)
            /\ Taken = k

\* C11 happens: "E--e" has failed with EmptySpecification at its second
\* token, after the E and before the e.
C11_Witness ==
    /\ input = <<Tok("E", Blank, <<>>), EmptyToken, Tok("e", Blank, <<>>)>>
    /\ FailedWith(EmptySpecification)
    /\ layout.endianness = "Big"
    /\ Len(specifications) = 1

\* the characters written in one place
Written(f) == RenderField(f)

\* the digit run a place begins with
LeadingDigits(f) == SubSeq(Written(f), 1, digit_run(Written(f)))

RECURSIVE StripZeros(_)
StripZeros(ds) ==
    IF Len(ds) > 1 /\ Head(ds) = "0" THEN StripZeros(Tail(ds)) ELSE ds

\* a > b, for decimal numbers of as many digits
RECURSIVE DigitsGreater(_, _)
DigitsGreater(a, b) ==
    IF a = <<>> THEN FALSE
    ELSE IF Head(a) # Head(b) THEN to_digit(Head(a)) > to_digit(Head(b))
    ELSE DigitsGreater(Tail(a), Tail(b))

\* the decimal number ds exceeds 2^32 - 1
ExceedsU32(ds) ==
    \/ Len(StripZeros(ds)) > Len(U32_MAX_DIGITS)
    \/ /\ Len(StripZeros(ds)) = Len(U32_MAX_DIGITS)
       /\ DigitsGreater(StripZeros(ds), U32_MAX_DIGITS)

\* a character that is no digit stands where the number begins
NonDigitStands(f) == Written(f) # <<>> /\ ~is_ascii_digit(Written(f)[1])

\* the place begins with a number too large for a u32
Overflows(f) == LeadingDigits(f) # <<>> /\ ExceedsU32(LeadingDigits(f))

\* a number that fits a u32, and nothing else
Pure(f) ==
    /\ Written(f) # <<>>
    /\ LeadingDigits(f) = Written(f)
    /\ ~ExceedsU32(Written(f))

\* the places of a token where a number is read: 0 is the place directly
\* after the specifier, j the j-th field
Places(t) ==
    CASE t.kind \in {"S", "P", "G", "A"} -> {0}
      [] t.kind \in {"i", "v", "f"} ->
            {j \in 0..Len(t.fields) : j <= Accepts(t.kind)}
      [] t.kind = "p" ->
            {j \in 0..Len(t.fields) :
                j <= Accepts(t.kind) /\ (j = 0 => t.head # Blank)}
      [] OTHER -> {}

PlaceOf(t, j) == IF j = 0 THEN t.head ELSE t.fields[j]

\* the places before j hold a number and nothing else
PureBefore(t, j) == \A i \in Places(t) : i < j => Pure(PlaceOf(t, i))

FailedWithInvalidInteger ==
    Done /\ result.tag = "Err" /\ result.error.tag = "InvalidInteger"

\* C12: where try_from reads a number (the size, alignment and address-space
\* places of the S, P, G, A, p, i, v and f tokens), a character that is no
\* digit, and a digit run above 2^32 - 1, fail with InvalidInteger; the value
\* is never wrapped or truncated into the draft; 2^32 - 1 itself is read.
C12_NumbersAreChecked ==
    \A k \in 1..Len(input) :
        Taken = k =>
            /\ \A j \in Places(input[k]) :
                  (/\ PureBefore(input[k], j)
                   /\ \/ NonDigitStands(PlaceOf(input[k], j))
                      \/ Overflows(PlaceOf(input[k], j))) =>
                      /\ FailedWithInvalidInteger
                      /\ Len(input) = 1 => layout = Layout_default
            /\ (/\ Len(input) = 1
                /\ input[k].kind \in {"S", "P", "G", "A"}
                /\ input[k].fields = <<>>
                /\ StripZeros(Written(input[k].head)) = U32_MAX_DIGITS) =>
                    /\ result.tag # "Err"
                    /\ <<HALF - 1, HALF - 1>> \in
                          {unwrap_bits(layout.stack_alignment),
                           layout.program_address_space,
                           layout.global_address_space,
                           layout.alloca_address_space}

\* C12 happens: "S4294967360" (2^32 + 64) has failed with the overflow error
\* and no stack alignment, neither 64 nor any, is set.
C12_Witness ==
    /\ input = <<Tok("S", D(<<"4", "2", "9", "4", "9", "6", "7", "3", "6", "0">>), <<>>)>>
    /\ FailedWith(InvalidInteger("PosOverflow"))
    /\ layout.stack_alignment = None

\* the error parse_specification returns for the token on its own
ErrorAlone(t) == parse_specification(Layout_default, RenderToken(t)).err

\* token k is the leftmost token the parser rejects
FirstMalformed(k) ==
    /\ ~AcceptedAlone(input[k])
    /\ \A j \in 1..(k - 1) : AcceptedAlone(input[j])

\* the draft after the first k tokens, taken from left to right
RECURSIVE DraftUpTo(_)
DraftUpTo(k) ==
    IF k = 0 THEN Layout_default
    ELSE parse_specification(DraftUpTo(k - 1), RenderToken(input[k])).layout

\* the tokens right of token k, as written
RightOf(k) == [i \in 1..(Len(input) - k) |-> RenderToken(input[k + i])]

\* C13: tokens are taken from left to right and the parse stops at the first
\* token rejected: the result is the error of the leftmost malformed token,
\* the tokens right of it are still in the iterator and have left no trace
\* in the draft, and the Err carries no Layout; a string without a malformed
\* token gives Ok of the draft after its last token.
C13_LeftmostErrorReturned ==
    /\ \A k \in 1..Len(input) :
          (Done /\ FirstMalformed(k)) =>
              /\ result = Err(ErrorAlone(input[k]))
              /\ DOMAIN result = {"tag", "error"}
              /\ Taken = k
              /\ specifications = RightOf(k)
              /\ layout = DraftUpTo(k)
    /\ (Done /\ \A k \in 1..Len(input) : AcceptedAlone(input[k])) =>
          result = Ok(DraftUpTo(Len(input)))
    /\ Taken \in 0..Len(input) /\ layout = DraftUpTo(Taken)

\* C13 happens: "S128--x" has two malformed tokens, the empty one and the x,
\* and has failed with the error of the empty one; the x is still in the
\* iterator and the S128 is in the draft.
C13_Witness ==
    /\ input = <<Tok("S", N(128), <<>>), EmptyToken, Tok("x", Blank, <<>>)>>
    /\ result = Err(EmptySpecification)
    /\ specifications = <<<<"x">>>>
    /\ layout.stack_alignment = Some(U32(128))

-----------------------------------------------------------------------------
(* The claims on what a parse leaves alone *)

\* the specifier letters written in the string
KindsWritten == {input[i].kind : i \in 1..Len(input)}

\* the size an i, v or f token names (a run written out that is read as a
\* number is 2^32 - 1)
SizeNamed(t) ==
    IF t.head.num >= 0 THEN U32(t.head.num) ELSE <<HALF - 1, HALF - 1>>

\* the sizes named by the tokens of a kind
NamedSizes(kind) ==
    {SizeNamed(input[i]) : i \in {j \in 1..Len(input) : input[j].kind = kind}}

\* the field of Layout an i, v or f token writes
MapField(kind) ==
    CASE kind = "i" -> "integer_alignments"
      [] kind = "v" -> "vector_alignments"
      [] kind = "f" -> "float_alignments"

\* two maps agree on every size but those of the set
AgreeBut(m1, m2, sizes) ==
    \A size \in (DOMAIN m1 \cup DOMAIN m2) \ sizes :
        PrimitiveAlignmentMap_get(m1, size) = PrimitiveAlignmentMap_get(m2, size)

\* C14: after a successful parse every field of the Layout that no token of
\* the string targets has its value of Layout::default(), and so has every
\* entry of the integer, vector and float maps for a size that no token of
\* that kind names; an i, v or f token for size N changes the entry for N in
\* the map of its own kind and nothing else in the draft.
C14_UntouchedFieldsDefault ==
    /\ Succeeded =>
        /\ KindsWritten \cap {"E", "e"} = {} =>
              result.layout.endianness = Layout_default.endianness
        /\ "S" \notin KindsWritten =>
              result.layout.stack_alignment = Layout_default.stack_alignment
        /\ "P" \notin KindsWritten =>
              result.layout.program_address_space = Layout_default.program_address_space
        /\ "G" \notin KindsWritten =>
              result.layout.global_address_space = Layout_default.global_address_space
        /\ "A" \notin KindsWritten =>
              result.layout.alloca_address_space = Layout_default.alloca_address_space
        /\ "p" \notin KindsWritten =>
              result.layout.pointer_layouts = Layout_default.pointer_layouts
        /\ "a" \notin KindsWritten =>
              result.layout.aggregate_object_alignment =
                  Layout_default.aggregate_object_alignment
        /\ "F" \notin KindsWritten =>
              result.layout.function_pointer_alignment =
                  Layout_default.function_pointer_alignment
        /\ "m" \notin KindsWritten =>
              result.layout.mangling = Layout_default.mangling
        /\ "n" \notin KindsWritten =>
              result.layout.native_integer_widths = Layout_default.native_integer_widths
        /\ \A kind \in {"i", "v", "f"} :
              AgreeBut(MapOf(result.layout, kind), MapOf(Layout_default, kind),
                       NamedSizes(kind))
    /\ \A k \in 1..Len(input) :
          (Taken = k /\ result.tag # "Err" /\ input[k].kind \in {"i", "v", "f"}) =>
              /\ \A field \in DOMAIN layout \ {MapField(input[k].kind)} :
                    layout[field] = DraftUpTo(k - 1)[field]
              /\ AgreeBut(MapOf(layout, input[k].kind),
                          MapOf(DraftUpTo(k - 1), input[k].kind),
                          {SizeNamed(input[k])})

\* C14 happens: "v64:32-i24:32:64" has parsed; the float map, the 128-bit
\* vector entry and the five default integer entries are as in the default.
C14_Witness ==
    /\ Succeeded
    /\ input = <<Tok("v", N(64), <<N(32)>>), Tok("i", N(24), <<N(32), N(64)>>)>>
    /\ result.layout.float_alignments = FLOAT_ALIGNMENT_DEFAULTS
    /\ result.layout.vector_alignments[SIZE_128] = VECTOR_ALIGNMENT_DEFAULTS[SIZE_128]
    /\ result.layout.vector_alignments[SIZE_64] # VECTOR_ALIGNMENT_DEFAULTS[SIZE_64]
    /\ \A size \in DOMAIN INTEGER_ALIGNMENT_DEFAULTS :
          result.layout.integer_alignments[size] = INTEGER_ALIGNMENT_DEFAULTS[size]
    /\ U32(24) \in DOMAIN result.layout.integer_alignments

-----------------------------------------------------------------------------
(* The claims on the pointer-layout map *)

\* the map was made by all_default() and has seen insert calls only
OnlyInserts == \A n \in 1..Len(calls) : calls[n].op = "insert"

\* a layout for address space a was inserted before call n
ReceivedBefore(a, n) == \E m \in 1..(n - 1) : calls[m].arg.address_space = a

\* the first layout inserted for address space a
FirstInserted(a) ==
    calls[CHOOSE m \in 1..Len(calls) :
              /\ calls[m].arg.address_space = a
              /\ ~ReceivedBefore(a, m)].arg

\* C15: on a map made by all_default(), an insert for an address space that
\* has not received a layout returns Ok and stores the layout; an insert for
\* one that has returns Err of the existing entry and leaves the map as it
\* was; so get(A) is the first layout inserted for A.
C15_InsertStoresFirst ==
    OnlyInserts =>
        \A n \in 1..Len(calls) :
            /\ IF ~ReceivedBefore(calls[n].arg.address_space, n)
               THEN /\ calls[n].ok
                    /\ PointerLayoutMap_get(calls[n].after,
                                            calls[n].arg.address_space)
                          = Some(calls[n].arg)
               ELSE /\ ~calls[n].ok
                    /\ calls[n].ret = FirstInserted(calls[n].arg.address_space)
                    /\ calls[n].after = calls[n].before
            /\ PointerLayoutMap_get(pointers, calls[n].arg.address_space)
                  = Some(FirstInserted(calls[n].arg.address_space))

-----------------------------------------------------------------------------
(* The claims on the primitive-alignment maps and the default tables *)

IsMapCall(c) == c.op \in {"try_insert", "insert_or_replace"}

\* the insert_or_replace calls made for a size on the map at a place
Replacing(place, size) ==
    {n \in 1..Len(calls) :
        /\ calls[n].op = "insert_or_replace"
        /\ calls[n].at = place /\ calls[n].size = size}

\* the try_insert calls for a size on the map at a place that returned Ok
Inserting(place, size) ==
    {n \in 1..Len(calls) :
        /\ calls[n].op = "try_insert" /\ calls[n].ok
        /\ calls[n].at = place /\ calls[n].size = size}

First(S) == CHOOSE n \in S : \A m \in S : n <= m

Last(S) == CHOOSE n \in S : \A m \in S : m <= n

\* the most recent insert_or_replace or, when none followed it, the first
\* try_insert that returned Ok
Deciding(place, size) ==
    IF /\ Inserting(place, size) # {}
       /\ \A r \in Replacing(place, size) : r < First(Inserting(place, size))
    THEN First(Inserting(place, size))
    ELSE Last(Replacing(place, size))

\* C16: try_insert(size, a) on a map without an entry for size stores a and
\* returns Ok, on a map with one it returns Err of the existing entry and
\* leaves the map as it was; insert_or_replace(size, a) stores a and cannot
\* fail; neither touches another size; and get(size) is the value of the most
\* recent insert_or_replace for size or, if none followed it, of the first
\* try_insert that returned Ok.
C16_TryInsertKeepsReplaceOverwrites ==
    /\ \A n \in 1..Len(calls) :
          IsMapCall(calls[n]) =>
              /\ AgreeBut(calls[n].after, calls[n].before, {calls[n].size})
              /\ IF /\ calls[n].op = "try_insert"
                    /\ PrimitiveAlignmentMap_get(calls[n].before, calls[n].size) # None
                 THEN /\ ~calls[n].ok
                      /\ Some(calls[n].ret) =
                            PrimitiveAlignmentMap_get(calls[n].before, calls[n].size)
                      /\ calls[n].after = calls[n].before
                 ELSE /\ calls[n].ok
                      /\ PrimitiveAlignmentMap_get(calls[n].after, calls[n].size)
                            = Some(calls[n].alignment)
    /\ \A place \in DOMAIN tables, size \in ApiSizes :
          (Replacing(place, size) \cup Inserting(place, size) # {}) =>
              PrimitiveAlignmentMap_get(tables[place], size)
                = Some(calls[Deciding(place, size)].alignment)

\* C16 happens: on the integer map of a default layout, try_insert(24, 8) has
\* returned Ok, try_insert(24, 32) Err of the entry of 8, and the entry is 8.
C16_Witness ==
    /\ Len(calls) = 3
    /\ calls[2].op = "try_insert" /\ calls[2].ok
    /\ calls[2].size = U32(24) /\ calls[2].alignment = AlignmentPair_new(SIZE_8)
    /\ calls[3].op = "try_insert" /\ ~calls[3].ok
    /\ calls[3].at = calls[2].at /\ calls[3].size = U32(24)
    /\ calls[3].alignment = AlignmentPair_new(SIZE_32)
    /\ calls[3].ret = AlignmentPair_new(SIZE_8)
    /\ tables[calls[2].at][U32(24)] = AlignmentPair_new(SIZE_8)

\* the places of the maps of the layouts the caller owns
OwnedPlaces == {owned[k][field] : k \in 1..Len(owned), field \in MapFields}

\* C17: the three default tables hold what they held at the start, whatever
\* Layout::default(), Layout::try_from (Ok or Err, default sizes overridden
\* or not), try_insert and insert_or_replace calls were made: every layout
\* has its maps at places of its own, and every Layout::default() returned
\* the original default entries.
C17_DefaultTablesKept ==
    /\ tables[integer_defaults] = INTEGER_ALIGNMENT_DEFAULTS
    /\ tables[float_defaults] = FLOAT_ALIGNMENT_DEFAULTS
    /\ tables[vector_defaults] = VECTOR_ALIGNMENT_DEFAULTS
    /\ OwnedPlaces \cap DOMAIN StaticTables = {}
    /\ Cardinality(OwnedPlaces) = Cardinality(MapFields) * Len(owned)
    /\ \A n \in 1..Len(calls) :
          calls[n].op = "default" =>
              /\ calls[n].layout.integer_alignments = INTEGER_ALIGNMENT_DEFAULTS
              /\ calls[n].layout.float_alignments = FLOAT_ALIGNMENT_DEFAULTS
              /\ calls[n].layout.vector_alignments = VECTOR_ALIGNMENT_DEFAULTS

\* C17 happens: try_from("i64:32") has overridden the 64-bit integer entry of
\* its layout, insert_or_replace has overridden the 64-bit float entry of the
\* same layout, and the Layout::default() after them has the original ones.
C17_Witness ==
    /\ Len(calls) = 3
    /\ calls[1].op = "try_from" /\ calls[1].ok
    /\ tables[calls[1].maps.integer_alignments][SIZE_64] = AlignmentPair_new(SIZE_32)
    /\ calls[2].op = "insert_or_replace"
    /\ calls[2].at = calls[1].maps.float_alignments
    /\ calls[2].size = SIZE_64 /\ calls[2].alignment = AlignmentPair_new(SIZE_8)
    /\ calls[3].op = "default"
    /\ calls[3].layout.integer_alignments[SIZE_64] = AlignmentPair_new(SIZE_64)
    /\ calls[3].layout.float_alignments[SIZE_64] = AlignmentPair_new(SIZE_64)
    /\ tables[float_defaults][SIZE_64] = AlignmentPair_new(SIZE_64)

-----------------------------------------------------------------------------
(* The claims on the values stored *)

Options(o) == IF o = None THEN {} ELSE {o[1]}

\* the BitSize values of an alignment pair, of a primitive-alignment map, of
\* a pointer-layout map and of a Layout
PairSizes(pair) == Options(pair.abi) \cup Options(pair.preferred)

MapSizes(map) == DOMAIN map \cup UNION {PairSizes(map[size]) : size \in DOMAIN map}

PointerSizes(map) ==
    UNION {{map[a].size} \cup Options(map[a].index_size)
              \cup PairSizes(map[a].alignment) : a \in DOMAIN map}

BitSizesOf(l) ==
    Options(l.stack_alignment)
        \cup PointerSizes(l.pointer_layouts)
        \cup MapSizes(l.integer_alignments)
        \cup MapSizes(l.vector_alignments)
        \cup MapSizes(l.float_alignments)
        \cup PairSizes(l.aggregate_object_alignment)
        \cup {l.native_integer_widths[i] : i \in 1..Len(l.native_integer_widths)}

\* C18: every BitSize is above zero: the SIZE_ constants, from_bytes(n),
\* which is 8 * n without overflow for every n in 1..=255, and every BitSize
\* in the draft and in the Layout try_from returns; a field written as 0 is
\* never stored as a BitSize: S0 leaves no stack alignment, an alignment of 0
\* is an absent one, a size of 0 is an error.
C18_BitSizesPositive ==
    /\ U32Zero \notin {SIZE_1, SIZE_8, SIZE_16, SIZE_32, SIZE_64, SIZE_128}
    /\ \A n \in 1..(2^8 - 1) :
          from_bytes(n) = <<0, 8 * n>> /\ from_bytes(n) # U32Zero
    /\ U32Zero \notin BitSizesOf(layout)
    /\ Succeeded => U32Zero \notin BitSizesOf(result.layout)
    /\ \A k \in 1..Len(input) :
          Taken = k =>
              /\ (input[k].kind = "S" /\ input[k].head = N(0)
                      /\ input[k].fields = <<>>) =>
                    result.tag # "Err" /\ layout.stack_alignment = None
              /\ (WellFormedPrimitive(input[k]) /\ input[k].fields[1] = N(0)) =>
                    /\ result.tag # "Err"
                    /\ MapOf(layout, input[k].kind)[U32(input[k].head.num)].abi = None
              /\ ZeroSize(input[k]) =>
                    Done /\ result.tag = "Err"

\* C18 happens: "i8:0:8" has parsed and the 8-bit integer entry has no ABI
\* alignment and a preferred alignment of 8.
C18_Witness ==
    /\ Succeeded
    /\ input = <<Tok("i", N(8), <<N(0), N(8)>>)>>
    /\ result.layout.integer_alignments[SIZE_8] = [abi |-> None, preferred |-> Some(SIZE_8)]

\* C19: "m:c" sets the mangling to ELF for e, GOFF for l, MIPS for m, Mach-O
\* for o, WindowsX86COFF for x, WindowsCOFF for w and XCOFF for a, and fails
\* with InvalidManglingValue(c) for any other character c; "m" and "m:" fail
\* with MissingManglingValue.
C19_ManglingTable ==
    \A k \in 1..Len(input) :
        (Taken = k /\ input[k].kind = "m" /\ input[k].head = Blank) =>
            /\ (input[k].fields = <<>> \/ input[k].fields = <<Blank>>) =>
                  FailedWith(MissingManglingValue)
            /\ (Len(input[k].fields) = 1 /\ Len(Written(input[k].fields[1])) = 1) =>
                  CASE Written(input[k].fields[1]) = <<"e">> ->
                          result.tag # "Err" /\ layout.mangling = Some("ELF")
                    [] Written(input[k].fields[1]) = <<"l">> ->
                          result.tag # "Err" /\ layout.mangling = Some("GOFF")
                    [] Written(input[k].fields[1]) = <<"m">> ->
                          result.tag # "Err" /\ layout.mangling = Some("MIPS")
                    [] Written(input[k].fields[1]) = <<"o">> ->
                          result.tag # "Err" /\ layout.mangling = Some("MachO")
                    [] Written(input[k].fields[1]) = <<"x">> ->
                          result.tag # "Err" /\ layout.mangling = Some("WindowsX86COFF")
                    [] Written(input[k].fields[1]) = <<"w">> ->
                          result.tag # "Err" /\ layout.mangling = Some("WindowsCOFF")
                    [] Written(input[k].fields[1]) = <<"a">> ->
                          result.tag # "Err" /\ layout.mangling = Some("XCOFF")
                    [] OTHER ->
                          FailedWith(InvalidManglingValue(Written(input[k].fields[1])[1]))

\* C19 happens: "m:w" has parsed and the mangling is WindowsCOFF.
C19_Witness ==
    /\ Succeeded
    /\ input = <<Tok("m", Blank, <<T("w")>>)>>
    /\ result.layout.mangling = Some("WindowsCOFF")

\* a well-formed E, e, S, P, G, A or m token
SingleValued(t) ==
    t.kind \in {"E", "e", "S", "P", "G", "A", "m"} /\ WellFormedScalar(t)

\* the value a single-valued token gives its field
ValueOf(t) ==
    CASE t.kind = "E" -> "Big"
      [] t.kind = "e" -> "Little"
      [] t.kind = "S" -> Bits(t.head.num)
      [] t.kind \in {"P", "G", "A"} -> U32(t.head.num)
      [] t.kind = "m" -> Some(SchemeOf(t.fields[1].txt[1]))

\* the field of Layout a single-valued token sets
FieldOf(kind) ==
    CASE kind \in {"E", "e"} -> "endianness"
      [] kind = "S" -> "stack_alignment"
      [] kind = "P" -> "program_address_space"
      [] kind = "G" -> "global_address_space"
      [] kind = "A" -> "alloca_address_space"
      [] kind = "m" -> "mangling"

\* no later token of the string sets the field of token i
LastForItsField(i) ==
    \A j \in (i + 1)..Len(input) : FieldOf(input[j].kind) # FieldOf(input[i].kind)

\* C20: a string of well-formed E, e, S, P, G, A and m tokens parses however
\* often a specifier is repeated, and each field has the value of the last
\* token that sets it; a P, G or A token sets the program, global or alloca
\* address space and leaves every other field of the draft as it was.
C20_LastSingleValuedWins ==
    /\ (Done /\ \A i \in 1..Len(input) : SingleValued(input[i])) =>
          /\ Succeeded
          /\ \A i \in 1..Len(input) :
                LastForItsField(i) =>
                    result.layout[FieldOf(input[i].kind)] = ValueOf(input[i])
    /\ \A k \in 1..Len(input) :
          (Taken = k /\ SingleValued(input[k])) =>
              /\ result.tag # "Err"
              /\ layout[FieldOf(input[k].kind)] = ValueOf(input[k])
              /\ \A field \in DOMAIN layout \ {FieldOf(input[k].kind)} :
                    layout[field] = DraftUpTo(k - 1)[field]

\* C20 happens: "P1-P2" has parsed; the program address space is 2 and the
\* global and alloca address spaces are 0.
C20_Witness ==
    /\ Succeeded
    /\ input = <<Tok("P", N(1), <<>>), Tok("P", N(2), <<>>)>>
    /\ result.layout.program_address_space = U32(2)
    /\ result.layout.global_address_space = U32(0)
    /\ result.layout.alloca_address_space = U32(0)

-----------------------------------------------------------------------------
(* The claims on the stack alignment and the endianness *)

\* C21: "S<n>" with n above zero sets the stack alignment to n bits; "S0" is
\* accepted and leaves no stack alignment; an S followed by a character that
\* is no digit fails with InvalidInteger and the stack alignment stays as it
\* was.
C21_StackAlignment ==
    \A k \in 1..Len(input) :
        (Taken = k /\ input[k].kind = "S" /\ input[k].fields = <<>>) =>
            /\ (IsNum(input[k].head) /\ input[k].head.num > 0) =>
                  /\ result.tag # "Err"
                  /\ layout.stack_alignment = Some(U32(input[k].head.num))
                  /\ unwrap_bits(layout.stack_alignment) = <<0, input[k].head.num>>
            /\ input[k].head = N(0) =>
                  /\ result.tag # "Err"
                  /\ layout.stack_alignment = None
            /\ NonDigitStands(input[k].head) =>
                  /\ FailedWithInvalidInteger
                  /\ layout.stack_alignment = DraftUpTo(k - 1).stack_alignment

\* C21 happens: "S128-S0" has parsed: the first token set 128 bits and the
\* second left no stack alignment.
C21_Witness ==
    /\ Succeeded
    /\ input = <<Tok("S", N(128), <<>>), Tok("S", N(0), <<>>)>>
    /\ DraftUpTo(1).stack_alignment = Some(SIZE_128)
    /\ result.layout.stack_alignment = None

\* the positions of the E and e tokens of the string
EndiannessTokens == {i \in 1..Len(input) : input[i].kind \in {"E", "e"}}

\* C22: an e token sets little-endian and an E token big-endian; a string
\* that has parsed has the endianness of its last E or e token, formatted as
\* that very character, and without any such token it has the endianness of
\* Layout::default(), which is little-endian, formatted as 'e'.
C22_Endianness ==
    /\ Layout_default.endianness = "Little"
    /\ Endianness_fmt(Layout_default.endianness) = "e"
    /\ \A k \in 1..Len(input) :
          (Taken = k /\ input[k].head = Blank /\ input[k].fields = <<>>) =>
              /\ input[k].kind = "e" =>
                    result.tag # "Err" /\ layout.endianness = "Little"
              /\ input[k].kind = "E" =>
                    result.tag # "Err" /\ layout.endianness = "Big"
    /\ Succeeded =>
          IF EndiannessTokens = {}
          THEN /\ result.layout.endianness = "Little"
               /\ Endianness_fmt(result.layout.endianness) = "e"
          ELSE Endianness_fmt(result.layout.endianness)
                   = input[Last(EndiannessTokens)].kind

\* C22 happens: "E-S128" has parsed and its endianness is big-endian,
\* formatted as 'E'.
C22_Witness ==
    /\ Succeeded
    /\ input = <<Tok("E", Blank, <<>>), Tok("S", N(128), <<>>)>>
    /\ result.layout.endianness = "Big"
    /\ Endianness_fmt(result.layout.endianness) = "E"

-----------------------------------------------------------------------------
(* The claims on the accessors *)

\* the bit sizes the pairs are built from: the SIZE_ constants, 3 bytes and
\* the largest u32
PairBitSizes ==
    {SIZE_1, SIZE_8, SIZE_16, SIZE_32, SIZE_64, SIZE_128, from_bytes(3),
     <<HALF - 1, HALF - 1>>}

\* the alignment pairs of a Layout
PairsOf(l) ==
    {l.aggregate_object_alignment}
        \cup {l.integer_alignments[size] : size \in DOMAIN l.integer_alignments}
        \cup {l.vector_alignments[size] : size \in DOMAIN l.vector_alignments}
        \cup {l.float_alignments[size] : size \in DOMAIN l.float_alignments}
        \cup {l.pointer_layouts[a].alignment : a \in DOMAIN l.pointer_layouts}

\* the accessors of a pair give: the preferred value when set, or else the
\* ABI value when set, or else 0; and the ABI value, or 0 when absent
AccessorsAgree(pair) ==
    /\ pair.preferred # None => preferred_alignment(pair) = pair.preferred[1]
    /\ (pair.preferred = None /\ pair.abi # None) =>
          preferred_alignment(pair) = pair.abi[1]
    /\ (pair.preferred = None /\ pair.abi = None) =>
          preferred_alignment(pair) = U32Zero
    /\ pair.abi # None => abi_alignment(pair) = pair.abi[1]
    /\ pair.abi = None => abi_alignment(pair) = U32Zero

\* C23: preferred_alignment() is the preferred value when set, otherwise the
\* ABI alignment when set, otherwise 0, and abi_alignment() is 0 when the ABI
\* alignment is absent: for the pairs built by new, with_preferred_alignment
\* and with_preferred_only, for every pair of the draft, and for the pair an
\* i, v or f token writes, where a field of 0 is an absent value.
C23_AlignmentAccessors ==
    /\ \A a \in PairBitSizes :
          /\ AccessorsAgree(AlignmentPair_new(a))
          /\ preferred_alignment(AlignmentPair_new(a)) = a
          /\ abi_alignment(AlignmentPair_new(a)) = a
          /\ AccessorsAgree(AlignmentPair_with_preferred_only(a))
          /\ preferred_alignment(AlignmentPair_with_preferred_only(a)) = a
          /\ abi_alignment(AlignmentPair_with_preferred_only(a)) = U32Zero
          /\ \A p \in PairBitSizes :
                /\ AccessorsAgree(AlignmentPair_with_preferred_alignment(a, p))
                /\ preferred_alignment(
                       AlignmentPair_with_preferred_alignment(a, p)) = p
                /\ abi_alignment(
                       AlignmentPair_with_preferred_alignment(a, p)) = a
    /\ \A pair \in PairsOf(layout) : AccessorsAgree(pair)
    /\ \A k \in 1..Len(input) :
          (Taken = k /\ WellFormedPrimitive(input[k])) =>
              /\ result.tag # "Err"
              /\ abi_alignment(
                     MapOf(layout, input[k].kind)[U32(input[k].head.num)])
                   = U32(input[k].fields[1].num)
              /\ preferred_alignment(
                     MapOf(layout, input[k].kind)[U32(input[k].head.num)])
                   = IF Len(input[k].fields) = 2 /\ input[k].fields[2].num > 0
                     THEN U32(input[k].fields[2].num)
                     ELSE U32(input[k].fields[1].num)

\* C23 happens: "i8:64:0" has parsed: the entry of 8 bits has no preferred
\* value and preferred_alignment() gives the 64 of the ABI alignment.
C23_Witness ==
    /\ Succeeded
    /\ input = <<Tok("i", N(8), <<N(64), N(0)>>)>>
    /\ result.layout.integer_alignments[SIZE_8].preferred = None
    /\ preferred_alignment(result.layout.integer_alignments[SIZE_8]) = SIZE_64
    /\ abi_alignment(result.layout.integer_alignments[SIZE_8]) = SIZE_64

\* C24: get_or_default(A) returns the layout the map holds for A when it
\* holds one and LAYOUT_64_BIT otherwise, so on a map without entries it
\* returns LAYOUT_64_BIT for every address space; it leaves the map as it
\* was; LAYOUT_64_BIT is 64 bits wide, 64-bit aligned and has an index size
\* of 64 bits; index_size() is the pointer size when no index size was given.
C24_GetOrDefault ==
    /\ LAYOUT_64_BIT.size = SIZE_64
    /\ abi_alignment(LAYOUT_64_BIT.alignment) = SIZE_64
    /\ index_size(LAYOUT_64_BIT) = SIZE_64
    /\ \A n \in 1..Len(calls) :
          calls[n].op = "get_or_default" =>
              /\ calls[n].after = calls[n].before
              /\ IF calls[n].arg \in DOMAIN calls[n].before
                 THEN /\ calls[n].ret = calls[n].before[calls[n].arg]
                      /\ calls[n].ret.address_space = calls[n].arg
                 ELSE calls[n].ret = LAYOUT_64_BIT
              /\ DOMAIN calls[n].before = {} => calls[n].ret = LAYOUT_64_BIT
              /\ IF calls[n].ret.index_size = None
                 THEN index_size(calls[n].ret) = calls[n].ret.size
                 ELSE index_size(calls[n].ret) = calls[n].ret.index_size[1]

\* C24 happens: on the map made by from_layout of a 32-bit layout for address
\* space 1, get_or_default(1) has returned that layout, with an index size of
\* 32 bits, and get_or_default(2) has returned LAYOUT_64_BIT.
C24_Witness ==
    /\ Len(calls) = 3
    /\ calls[1].op = "from_layout"
    /\ calls[1].arg.address_space = U32(1) /\ calls[1].arg.size = SIZE_32
    /\ calls[2].op = "get_or_default" /\ calls[2].arg = U32(1)
    /\ calls[2].ret = calls[1].arg
    /\ index_size(calls[2].ret) = SIZE_32
    /\ calls[3].op = "get_or_default" /\ calls[3].arg = U32(2)
    /\ calls[3].ret = LAYOUT_64_BIT

-----------------------------------------------------------------------------
(* Target triples (src/src/target/mod.rs).  An enum value is the name of    *)
(* its variant; a KnownTriple is a record of its four components.          *)

\* <Architecture as Display>::fmt: the text written
Architecture_fmt(self) ==
    CASE self = "Unknown" -> <<"u", "n", "k", "n", "o", "w", "n">>
      [] self = "ARM" -> <<"a", "r", "m">>
      [] self = "AArch64" -> <<"a", "a", "r", "c", "h", "6", "4">>
      [] self = "MIPS" -> <<"m", "i", "p", "s">>
      [] self = "Wasm32" -> <<"w", "a", "s", "m", "3", "2">>
      [] self = "Wasm64" -> <<"w", "a", "s", "m", "6", "4">>
      [] self = "X86" -> <<"i", "6", "8", "6">>
      [] self = "X86_64" -> <<"x", "8", "6", "_", "6", "4">>

\* <Vendor as Display>::fmt: the text written
Vendor_fmt(self) ==
    CASE self = "Unknown" -> <<"u", "n", "k", "n", "o", "w", "n">>
      [] self = "PC" -> <<"p", "c">>

\* <OperatingSystem as Display>::fmt: the text written
OperatingSystem_fmt(self) ==
    CASE self = "Unknown" -> <<"u", "n", "k", "n", "o", "w", "n">>
      [] self = "None" -> <<"n", "o", "n", "e">>
      [] self = "IOS" -> <<"i", "o", "s">>
      [] self = "Linux" -> <<"l", "i", "n", "u", "x">>
      [] self = "MacOSX" -> <<"m", "a", "c", "o", "s", "x">>
      [] self = "Windows" -> <<"w", "i", "n", "d", "o", "w", "s">>
      [] self = "WASI" -> <<"w", "a", "s", "i">>

\* <Environment as Display>::fmt: the text written
Environment_fmt(self) ==
    CASE self = "Unknown" -> <<"u", "n", "k", "n", "o", "w", "n">>
      [] self = "GNU" -> <<"g", "n", "u">>
      [] self = "MUSL" -> <<"m", "u", "s", "l">>
      [] self = "MSVC" -> <<"m", "s", "v", "c">>
      [] self = "CoreCLR" -> <<"c", "o", "r", "e", "c", "l", "r">>

\* KnownTriple::with_environment
with_environment(architecture, vendor, operating_system, environment) ==
    [architecture     |-> architecture,
     vendor           |-> vendor,
     operating_system |-> operating_system,
     environment      |-> environment]

\* <KnownTriple as Display>::fmt
KnownTriple_fmt(self) ==
    Architecture_fmt(self.architecture) \o <<"-">>
        \o Vendor_fmt(self.vendor) \o <<"-">>
        \o OperatingSystem_fmt(self.operating_system)
        \o (IF self.environment = "Unknown" THEN <<>>
            ELSE <<"-">> \o Environment_fmt(self.environment))

\* KnownTriple::to_triple_string: Identifier::new_unchecked(self.to_string())
to_triple_string(self) == KnownTriple_fmt(self)

\* identifiers.next(), the n-th time it is called
next_identifier(identifiers, n) ==
    IF n <= Len(identifiers) THEN Some(identifiers[n]) ELSE None

\* let architecture = match next_identifier!() { .. }: None is fail!()
architecture_of(next) ==
    CASE next = Some(<<"a", "a", "r", "c", "h", "6", "4">>) -> Some("AArch64")
      [] next = Some(<<"m", "i", "p", "s">>) -> Some("MIPS")
      [] next = Some(<<"w", "a", "s", "m", "3", "2">>) -> Some("Wasm32")
      [] next = Some(<<"w", "a", "s", "m", "6", "4">>) -> Some("Wasm64")
      [] next = Some(<<"i", "6", "8", "6">>) -> Some("X86")
      [] next = Some(<<"x", "8", "6", "_", "6", "4">>) -> Some("X86_64")
      [] OTHER -> None

\* let vendor = match next_identifier!() { .. }
vendor_of(next) ==
    CASE next = Some(<<"u", "n", "k", "n", "o", "w", "n">>) -> Some("Unknown")
      [] next = Some(<<"p", "c">>) -> Some("PC")
      [] OTHER -> None

\* let operating_system = match next_identifier!() { .. }
operating_system_of(next) ==
    CASE next = Some(<<"u", "n", "k", "n", "o", "w", "n">>) -> Some("Unknown")
      [] next = Some(<<"n", "o", "n", "e">>) -> Some("None")
      [] next = Some(<<"i", "o", "s">>) -> Some("IOS")
      [] next = Some(<<"l", "i", "n", "u", "x">>) -> Some("Linux")
      [] next = Some(<<"m", "a", "c", "o", "s", "x">>) -> Some("MacOSX")
      [] next = Some(<<"w", "a", "s", "i">>) -> Some("WASI")
      [] next = Some(<<"w", "i", "n", "d", "o", "w", "s">>) -> Some("Windows")
      [] OTHER -> None

\* the match on the fourth component with every unrecognised one taken for
\* Environment::Unknown
environment_of_lenient(next) ==
    CASE next = Some(<<"g", "n", "u">>) -> Some("GNU")
      [] next = Some(<<"m", "u", "s", "l">>) -> Some("MUSL")
      [] next = Some(<<"m", "s", "v", "c">>) -> Some("MSVC")
      [] next = Some(<<"c", "o", "r", "e", "c", "l", "r">>) -> Some("CoreCLR")
      [] OTHER -> Some("Unknown")

\* let environment = match identifiers.next() { .. }
environment_of(next) ==
    CASE next = None -> Some("Unknown")
      [] next = Some(<<"u", "n", "k", "n", "o", "w", "n">>) -> Some("Unknown")
      [] next = Some(<<"g", "n", "u">>) -> Some("GNU")
      [] next = Some(<<"m", "u", "s", "l">>) -> Some("MUSL")
      [] next = Some(<<"m", "s", "v", "c">>) -> Some("MSVC")
      [] next = Some(<<"c", "o", "r", "e", "c", "l", "r">>) -> Some("CoreCLR")
      [] OTHER -> None

\* Err(UnknownTripleError { contents: triple })
UnknownTripleError(triple) == [ok |-> FALSE, contents |-> triple]

\* the body of try_from once the text is split
try_from_identifiers(triple, identifiers) ==
    IF architecture_of(next_identifier(identifiers, 1)) = None
    THEN UnknownTripleError(triple)
    ELSE IF vendor_of(next_identifier(identifiers, 2)) = None
    THEN UnknownTripleError(triple)
    ELSE IF operating_system_of(next_identifier(identifiers, 3)) = None
    THEN UnknownTripleError(triple)
    ELSE IF environment_of(next_identifier(identifiers, 4)) = None
    THEN UnknownTripleError(triple)
    ELSE IF next_identifier(identifiers, 5) # None
    THEN UnknownTripleError(triple)
    ELSE [ok    |-> TRUE,
          value |-> with_environment(
                        architecture_of(next_identifier(identifiers, 1))[1],
                        vendor_of(next_identifier(identifiers, 2))[1],
                        operating_system_of(next_identifier(identifiers, 3))[1],
                        environment_of(next_identifier(identifiers, 4))[1])]

\* <KnownTriple as TryFrom<&Id>>::try_from
KnownTriple_try_from(triple) == try_from_identifiers(triple, split(triple, "-"))

\* Ok(known) => Self::Known(known), Err(_) => Triple::Custom(triple.into())
Triple_of(triple, r) ==
    IF r.ok THEN [tag |-> "Known", triple |-> r.value]
    ELSE [tag |-> "Custom", identifier |-> triple]

\* <Triple as From<&Id>>::from
Triple_from(triple) == Triple_of(triple, KnownTriple_try_from(triple))

-----------------------------------------------------------------------------
(* A caller of Triple::from and of KnownTriple::to_triple_string and       *)
(* KnownTriple::try_from: `input` is what the text was written from, the   *)
(* components of a text or the triple formatted; `text` is the identifier*)
(* handed over and `result` what came back.  The functions keep no state,  *)
(* so a behaviour is one call.                                             *)

\* the values of the four enums
Architectures ==
    {"Unknown", "ARM", "AArch64", "MIPS", "Wasm32", "Wasm64", "X86", "X86_64"}

Vendors == {"Unknown", "PC"}

OperatingSystems ==
    {"Unknown", "None", "IOS", "Linux", "MacOSX", "WASI", "Windows"}

Environments == {"Unknown", "GNU", "MUSL", "MSVC", "CoreCLR"}

\* every triple with_environment can build
KnownTriples ==
    {with_environment(a, v, o, e) :
        a \in Architectures, v \in Vendors,
        o \in OperatingSystems, e \in Environments}

\* the words a text is written from, by position: the names the parser
\* takes, some it does not, and the empty word
FirstWords ==
    {<<"a", "a", "r", "c", "h", "6", "4">>,
     <<"m", "i", "p", "s">>,
     <<"w", "a", "s", "m", "3", "2">>,
     <<"w", "a", "s", "m", "6", "4">>,
     <<"i", "6", "8", "6">>,
     <<"x", "8", "6", "_", "6", "4">>,
     <<"a", "r", "m">>,
     <<"u", "n", "k", "n", "o", "w", "n">>,
     <<"X", "8", "6", "_", "6", "4">>,
     <<"x", "8", "6">>,
     <<>>}

SecondWords ==
    {<<"u", "n", "k", "n", "o", "w", "n">>,
     <<"p", "c">>,
     <<"a", "p", "p", "l", "e">>,
     <<>>}

ThirdWords ==
    {<<"u", "n", "k", "n", "o", "w", "n">>,
     <<"n", "o", "n", "e">>,
     <<"i", "o", "s">>,
     <<"l", "i", "n", "u", "x">>,
     <<"m", "a", "c", "o", "s", "x">>,
     <<"w", "a", "s", "i">>,
     <<"w", "i", "n", "d", "o", "w", "s">>,
     <<"d", "a", "r", "w", "i", "n">>,
     <<>>}

FourthWords ==
    {<<"u", "n", "k", "n", "o", "w", "n">>,
     <<"g", "n", "u">>,
     <<"m", "u", "s", "l">>,
     <<"m", "s", "v", "c">>,
     <<"c", "o", "r", "e", "c", "l", "r">>,
     <<"e", "a", "b", "i">>,
     <<>>}

FifthWords ==
    {<<"g", "n", "u">>,
     <<>>}

\* the texts of one to five components
TripleWords ==
    {<<a>> : a \in FirstWords}
        \cup {<<a, v>> : a \in FirstWords, v \in SecondWords}
        \cup {<<a, v, o>> : a \in FirstWords, v \in SecondWords, o \in ThirdWords}
        \cup {<<a, v, o, e>> : a \in FirstWords, v \in SecondWords,
                               o \in ThirdWords, e \in FourthWords}
        \cup {<<a, v, o, e, x>> : a \in {<<"x", "8", "6", "_", "6", "4">>, <<"a", "r", "m">>}, v \in SecondWords,
                                  o \in ThirdWords, e \in FourthWords,
                                  x \in FifthWords}

\* the words joined by '-'
RECURSIVE Joined(_)
Joined(words) ==
    IF Len(words) = 1 THEN words[1]
    ELSE Head(words) \o <<"-">> \o Joined(Tail(words))

InitTriples == ParserIdle /\ NoCalls /\ NoObjects

TripleFrom(words, triple) ==
    /\ input' = words
    /\ text' = triple
    /\ result' = Triple_from(triple)
    /\ pc' = "Triple::from"

\* let t = Triple::from(triple)
CallTripleFrom ==
    /\ pc = "idle"
    /\ \E words \in TripleWords : TripleFrom(words, Joined(words))
    /\ UNCHANGED <<specifications, layout, pointers, tables, owned, calls, objectVars>>

TriedFromTripleString(known, triple) ==
    /\ input' = <<known>>
    /\ text' = triple
    /\ result' = KnownTriple_try_from(triple)
    /\ pc' = "KnownTriple::try_from"

\* let r = KnownTriple::try_from(known.to_triple_string().as_id())
CallTryFromTripleString ==
    /\ pc = "idle"
    /\ \E known \in KnownTriples :
          TriedFromTripleString(known, to_triple_string(known))
    /\ UNCHANGED <<specifications, layout, pointers, tables, owned, calls, objectVars>>

NextTriples == CallTripleFrom \/ CallTryFromTripleString

SpecTriples == InitTriples /\ [][NextTriples]_vars

-----------------------------------------------------------------------------
(* The claims on the target triples *)

\* the names try_from takes for each component
ArchitectureNames ==
    {<<"a", "a", "r", "c", "h", "6", "4">>,
     <<"m", "i", "p", "s">>,
     <<"w", "a", "s", "m", "3", "2">>,
     <<"w", "a", "s", "m", "6", "4">>,
     <<"i", "6", "8", "6">>,
     <<"x", "8", "6", "_", "6", "4">>}

VendorNames ==
    {<<"u", "n", "k", "n", "o", "w", "n">>,
     <<"p", "c">>}

OperatingSystemNames ==
    {<<"u", "n", "k", "n", "o", "w", "n">>,
     <<"n", "o", "n", "e">>,
     <<"i", "o", "s">>,
     <<"l", "i", "n", "u", "x">>,
     <<"m", "a", "c", "o", "s", "x">>,
     <<"w", "a", "s", "i">>,
     <<"w", "i", "n", "d", "o", "w", "s">>}

EnvironmentNames ==
    {<<"u", "n", "k", "n", "o", "w", "n">>,
     <<"g", "n", "u">>,
     <<"m", "u", "s", "l">>,
     <<"m", "s", "v", "c">>,
     <<"c", "o", "r", "e", "c", "l", "r">>}

\* three or four components, each in the vocabulary of its position
KnownShape(words) ==
    /\ Len(words) \in {3, 4}
    /\ words[1] \in ArchitectureNames
    /\ words[2] \in VendorNames
    /\ words[3] \in OperatingSystemNames
    /\ Len(words) = 4 => words[4] \in EnvironmentNames

\* C25: Triple::from always returns a Triple: Known exactly when the text
\* splits on '-' into three or four components, each among the names taken
\* for its position, and then with the components so named (an absent fourth
\* one is Environment::Unknown); in every other case, an unrecognised or
\* empty component, fewer than three or more than four components, Custom
\* holding the text as it was.
C25_TripleFromTotal ==
    pc = "Triple::from" =>
        /\ text = Joined(input)
        /\ result.tag \in {"Known", "Custom"}
        /\ result.tag = "Known" <=> KnownShape(input)
        /\ result.tag = "Known" =>
              /\ Architecture_fmt(result.triple.architecture) = input[1]
              /\ Vendor_fmt(result.triple.vendor) = input[2]
              /\ OperatingSystem_fmt(result.triple.operating_system) = input[3]
              /\ IF Len(input) = 3
                 THEN result.triple.environment = "Unknown"
                 ELSE Environment_fmt(result.triple.environment) = input[4]
        /\ result.tag = "Custom" => result.identifier = text

\* C25 happens: Triple::from("x86_64-pc-linux-gnu") has returned Known with
\* X86_64, PC, Linux and GNU.
C25_Witness ==
    /\ pc = "Triple::from"
    /\ input = <<<<"x", "8", "6", "_", "6", "4">>, <<"p", "c">>, <<"l", "i", "n", "u", "x">>, <<"g", "n", "u">>>>
    /\ result = [tag    |-> "Known",
                 triple |-> with_environment("X86_64", "PC", "Linux", "GNU")]

\* C28: for every triple known that with_environment builds,
\* KnownTriple::try_from(known.to_triple_string()) is Ok of a triple with the
\* same four components, so Triple::from of that text is Known and never
\* Custom.
C28_KnownTripleRoundTrip ==
    pc = "KnownTriple::try_from" =>
        /\ text = to_triple_string(input[1])
        /\ result.ok
        /\ result.value = input[1]
        /\ Triple_from(text).tag = "Known"

-----------------------------------------------------------------------------
(* The claims on the run of try_from *)

\* s[n..] for some n: what is left of s after moving forward in it
IsSuffixOf(rest, s) ==
    Len(rest) <= Len(s) /\ rest = SliceFrom(s, Len(s) - Len(rest))

\* the sub-field parsers, started anywhere in s, leave a suffix of what they
\* were given, or fail
MovesForward(s) ==
    \A n \in 0..Len(s) :
        /\ parse_integer(SliceFrom(s, n)).ok =>
              /\ IsSuffixOf(parse_integer(SliceFrom(s, n)).rest, SliceFrom(s, n))
              /\ Len(parse_integer(SliceFrom(s, n)).rest) < Len(SliceFrom(s, n))
        /\ parse_bit_size(SliceFrom(s, n)).ok =>
              IsSuffixOf(parse_bit_size(SliceFrom(s, n)).rest, SliceFrom(s, n))
        /\ parse_mangling_option(SliceFrom(s, n)).ok =>
              IsSuffixOf(parse_mangling_option(SliceFrom(s, n)).rest,
                         SliceFrom(s, n))
        /\ \A parser \in {"parse_bit_size", "parse_mangling_option"} :
              parse_information(parser, SliceFrom(s, n)).ok =>
                  IsSuffixOf(parse_information(parser, SliceFrom(s, n)).rest,
                             SliceFrom(s, n))

\* C26: try_from terminates on every string: each turn of the loop takes the
\* next token, the leftmost not yet taken, out of the iterator and parses it
\* into the draft, the sub-field parsers only move forward in a token, and
\* the call comes to its return, with Ok(layout) or Err(error) and never
\* both, after which nothing changes.  (The entry of `calls` a turn reads is
\* what parse_specification returns for the draft and the token of that
\* turn.)
C26_TryFromTerminates ==
    /\ <>Done
    /\ [](Len(calls) = Len(input))
    /\ [](Done <=> result.tag \in {"Ok", "Err"})
    /\ [](Taken \in 0..Len(input))
    /\ [](\A k \in 1..Len(input) : MovesForward(RenderToken(input[k])))
    /\ [][pc = "loop" =>
             \/ /\ specifications # <<>>
                /\ Head(specifications) = RenderToken(input[Taken + 1])
                /\ specifications' = Tail(specifications)
                /\ calls[Taken + 1] =
                       parse_specification(layout, Head(specifications))
                /\ layout' =
                       parse_specification(layout, Head(specifications)).layout
                /\ pc' = "done" <=> result'.tag = "Err"
                /\ pc' = "done" <=>
                       ~parse_specification(layout, Head(specifications)).ok
             \/ /\ specifications = <<>>
                /\ pc' = "done"
                /\ result' = Ok(layout)]_vars
    /\ [][Done => UNCHANGED vars]_vars

\* C26 happens: "p1:64:64:64:32-i24:32:64" has been parsed to its end: both
\* tokens are taken, in two turns, and Ok is returned.
C26_Witness ==
    /\ input = <<Tok("p", N(1), <<N(64), N(64), N(64), N(32)>>),
                 Tok("i", N(24), <<N(32), N(64)>>)>>
    /\ specifications = <<>>
    /\ Taken = 2
    /\ Succeeded

-----------------------------------------------------------------------------
(* Two threads, each in a call of Layout::try_from on a string of its own. *)
(* Every variable of the call is a function of the thread; the maps of the *)
(* drafts live in `tables`, the memory the three statics live in, so that  *)
(* a write of one thread into a map of the other, or into a static, is a   *)
(* step the model can take if the code can.  A step is the entry of the    *)
(* call, one turn of its loop, or its return.                              *)

Threads == {1, 2}

\* the strings the threads parse: "i64:32", "i64:64-v64:32", "E-S128",
\* "f80:128-x", "p:64:64-i8:16", "v128:64-f64:32:64", "i8:16--e", "e"
ConcurrentInputs ==
    {<<Tok("i", N(64), <<N(32)>>)>>,
     <<Tok("i", N(64), <<N(64)>>), Tok("v", N(64), <<N(32)>>)>>,
     <<Tok("E", Blank, <<>>), Tok("S", N(128), <<>>)>>,
     <<Tok("f", N(80), <<N(128)>>), Tok("x", Blank, <<>>)>>,
     <<Tok("p", Blank, <<N(64), N(64)>>), Tok("i", N(8), <<N(16)>>)>>,
     <<Tok("v", N(128), <<N(64)>>), Tok("f", N(64), <<N(32), N(64)>>)>>,
     <<Tok("i", N(8), <<N(16)>>), EmptyToken, Tok("e", Blank, <<>>)>>,
     <<Tok("e", Blank, <<>>)>>}

\* the draft l with its maps read from the places h
DraftOf(store, h, l) ==
    [l EXCEPT !.integer_alignments = store[h.integer_alignments],
              !.vector_alignments = store[h.vector_alignments],
              !.float_alignments = store[h.float_alignments]]

InitConcurrent ==
    /\ input \in [Threads -> ConcurrentInputs]
    /\ text = [t \in Threads |-> RenderText(input[t])]
    /\ specifications = [t \in Threads |-> <<>>]
    /\ layout = [t \in Threads |-> Layout_default]
    /\ result = [t \in Threads |-> Pending]
    /\ pc = [t \in Threads |-> "start"]
    /\ pointers = PointerLayoutMap_all_default
    /\ tables = StaticTables
    /\ owned = [t \in Threads |-> <<>>]
    /\ calls = <<>>
    /\ NoObjects

\* let mut specifications = layout.split('-'); let mut layout = Self::default();
Entered(t, d) ==
    /\ specifications' = [specifications EXCEPT ![t] = split(text[t], "-")]
    /\ tables' = d.tables
    /\ owned' = [owned EXCEPT ![t] = d.maps]
    /\ layout' = [layout EXCEPT ![t] = Deref(d.tables, d.maps)]
    /\ pc' = [pc EXCEPT ![t] = "loop"]
    /\ UNCHANGED result

Enter(t) ==
    /\ pc[t] = "start"
    /\ Entered(t, Layout_default_in(tables, t - 1))
    /\ UNCHANGED <<input, text, pointers, calls, objectVars>>

\* parse_specification(&mut layout, &buffer)? in thread t
Turned(t, r) ==
    /\ specifications' = [specifications EXCEPT ![t] = Tail(specifications[t])]
    /\ layout' = [layout EXCEPT ![t] = r.layout]
    /\ IF r.ok
       THEN /\ tables' = Written_back(tables, owned[t], r.layout)
            /\ UNCHANGED <<result, pc>>
       ELSE /\ tables' = Dropped(Written_back(tables, owned[t], r.layout),
                                 owned[t])
            /\ result' = [result EXCEPT ![t] = Err(r.err)]
            /\ pc' = [pc EXCEPT ![t] = "done"]

\* one turn of the while loop of thread t
Turn(t) ==
    /\ pc[t] = "loop"
    /\ specifications[t] # <<>>
    /\ Turned(t, parse_specification(DraftOf(tables, owned[t], layout[t]),
                                     Head(specifications[t])))
    /\ UNCHANGED <<input, text, pointers, owned, calls, objectVars>>

\* Ok(layout) in thread t
Return(t) ==
    /\ pc[t] = "loop"
    /\ specifications[t] = <<>>
    /\ result' = [result EXCEPT ![t] =
                     Ok(DraftOf(tables, owned[t], layout[t]))]
    /\ pc' = [pc EXCEPT ![t] = "done"]
    /\ UNCHANGED <<input, text, specifications, layout>>
    /\ UNCHANGED <<pointers, tables, owned, calls, objectVars>>

NextConcurrent == \E t \in Threads : Enter(t) \/ Turn(t) \/ Return(t)

SpecConcurrent == InitConcurrent /\ [][NextConcurrent]_vars

-----------------------------------------------------------------------------
(* The claim on concurrent calls *)

\* what try_from returns for a text when nothing else runs
Alone(txt) ==
    IF try_from_loop(Layout_default, split(txt, "-")).ok
    THEN Ok(try_from_loop(Layout_default, split(txt, "-")).layout)
    ELSE Err(try_from_loop(Layout_default, split(txt, "-")).err)

\* the draft after the first k tokens of a text when nothing else runs
RECURSIVE DraftAlone(_, _)
DraftAlone(specs, k) ==
    IF k = 0 THEN Layout_default
    ELSE parse_specification(DraftAlone(specs, k - 1), specs[k]).layout

\* the places of the maps of the draft of thread t
PlacesOf(t) ==
    {owned[t].integer_alignments, owned[t].vector_alignments,
     owned[t].float_alignments}

\* C27: two calls of try_from that run at once, their turns interleaved in
\* any order, each return what the call returns when run alone, and two
\* calls on the same string return the same; while a call runs its draft is
\* the draft of the call run alone after as many tokens, whatever the other
\* thread has done: the maps of the two drafts are in places of their own,
\* and the three default tables are read and never written.
C27_ConcurrentCallsIndependent ==
    /\ \A place \in DOMAIN StaticTables : tables[place] = StaticTables[place]
    /\ \A t \in Threads :
          /\ pc[t] = "loop" =>
                /\ DraftOf(tables, owned[t], layout[t])
                     = DraftAlone(split(text[t], "-"),
                           Len(split(text[t], "-")) - Len(specifications[t]))
                /\ PlacesOf(t) \cap DOMAIN StaticTables = {}
                /\ Cardinality(PlacesOf(t)) = Cardinality(DOMAIN StaticTables)
                /\ \A u \in Threads \ {t} :
                      pc[u] = "loop" => PlacesOf(t) \cap PlacesOf(u) = {}
          /\ pc[t] = "done" => result[t] = Alone(text[t])
          /\ pc[t] # "done" => result[t] = Pending
    /\ \A t, u \in Threads :
          (pc[t] = "done" /\ pc[u] = "done" /\ text[t] = text[u]) =>
              result[t] = result[u]

\* C27 happens: "i64:32" and "i64:64-v64:32" have been parsed at once and
\* have both returned Ok, the first with an alignment of 32 bits for i64 and
\* the second with one of 64, and the default table of the integers is as
\* it was.
C27_Witness ==
    /\ input[1] = <<Tok("i", N(64), <<N(32)>>)>>
    /\ input[2] = <<Tok("i", N(64), <<N(64)>>), Tok("v", N(64), <<N(32)>>)>>
    /\ pc = [t \in Threads |-> "done"]
    /\ result[1].tag = "Ok" /\ result[2].tag = "Ok"
    /\ result[1].layout.integer_alignments[SIZE_64] = AlignmentPair_new(SIZE_32)
    /\ result[2].layout.integer_alignments[SIZE_64] = AlignmentPair_new(SIZE_64)
    /\ result[2].layout.vector_alignments[SIZE_64] = AlignmentPair_new(SIZE_32)
    /\ tables[integer_defaults] = INTEGER_ALIGNMENT_DEFAULTS

(***************************************************************************)
(* block.rs: basic blocks and their terminator.  A caller makes blocks     *)
(* with BasicBlock::new() and calls ret on them; a panic of ret unwinds    *)
(* the call and leaves the block to whoever still holds it.  The blocks    *)
(* are Rc values of one thread, so a call runs alone.                      *)

\* the number of ret calls of a behaviour
MaxRets == 4

\* the values a caller can hand to ret: Integer::zero() is todo!(), which
\* leaves None as the only Option<Value> there is
Values == {None}

\* Instruction::Ret(value)
Instruction_Ret(value) == [tag |-> "Ret", value |-> value]

\* BasicBlock::new()
BasicBlock_new == [instructions |-> <<>>, terminated |-> FALSE]

\* a version of append_instruction that does not look at the flag
append_instruction_unchecked(self, instruction) ==
    [panicked |-> FALSE, self |-> [self EXCEPT !.instructions = Append(@, instruction)]]

\* BasicBlock::append_instruction: the block after the call, and whether
\* the call panicked
append_instruction(self, instruction) ==
    IF self.terminated
    THEN [panicked |-> TRUE, self |-> self]
    ELSE [panicked |-> FALSE, self |-> [self EXCEPT !.instructions = Append(@, instruction)]]

\* the second statement of ret, which a panic of the first one skips
ret_set_terminated(appended) ==
    IF appended.panicked
    THEN appended
    ELSE [panicked |-> FALSE, self |-> [appended.self EXCEPT !.terminated = TRUE]]

\* BasicBlock::ret
ret(self, value) == ret_set_terminated(append_instruction(self, Instruction_Ret(value)))

\* the blocks made so far
Blocks == 1..Len(instructions)

\* the block b as the code sees it
BlockAt(b) == [instructions |-> instructions[b], terminated |-> terminated[b]]

InitBlocks == ParserIdle /\ NoCalls /\ NoObjects

\* let block = BasicBlock::new();
CallNew ==
    /\ Len(instructions) < MaxCalls
    /\ instructions' = Append(instructions, BasicBlock_new.instructions)
    /\ terminated' = Append(terminated, BasicBlock_new.terminated)
    /\ calls' = Append(calls, [op |-> "new", block |-> Len(instructions) + 1])
    /\ UNCHANGED <<parserVars, pointers, tables, owned, held>>

Retted(b, value, returned) ==
    /\ instructions' = [instructions EXCEPT ![b] = returned.self.instructions]
    /\ terminated' = [terminated EXCEPT ![b] = returned.self.terminated]
    /\ calls' = Append(calls, [op |-> "ret", block |-> b, value |-> value, before |-> BlockAt(b),
                               panicked |-> returned.panicked, after |-> returned.self])

\* block.ret(value), with a panic that is caught or seen by a destructor
CallRet ==
    /\ Cardinality({n \in 1..Len(calls) : calls[n].op = "ret"}) < MaxRets
    /\ \E b \in Blocks, value \in Values : Retted(b, value, ret(BlockAt(b), value))
    /\ UNCHANGED <<parserVars, pointers, tables, owned, held>>

NextBlocks == CallNew \/ CallRet

SpecBlocks == InitBlocks /\ [][NextBlocks]_vars

\* the places of the terminator instructions of block b
Terminators(b) == {i \in 1..Len(instructions[b]) : instructions[b][i].tag = "Ret"}

\* the ret calls on block b, as places in the history
RetsOn(b) == {n \in 1..Len(calls) : calls[n].op = "ret" /\ calls[n].block = b}

\* C29: after any sequence of ret calls a block holds at most one
\* terminator, which is its last instruction, and is marked terminated
\* exactly when it holds one; the first ret on a block appends the
\* instruction and sets the flag, and every later ret on it panics and
\* leaves the instructions and the flag as they were.
C29_SingleTerminator ==
    /\ \A b \in Blocks :
        /\ Cardinality(Terminators(b)) <= 1
        /\ Terminators(b) # {} => Terminators(b) = {Len(instructions[b])}
        /\ terminated[b] <=> Terminators(b) # {}
        /\ BlockAt(b) = IF RetsOn(b) = {} THEN BasicBlock_new ELSE calls[Last(RetsOn(b))].after
    /\ \A n \in 1..Len(calls) :
        calls[n].op = "ret" =>
            IF \E m \in RetsOn(calls[n].block) : m < n
            THEN /\ calls[n].panicked
                 /\ calls[n].before.terminated
                 /\ calls[n].after = calls[n].before
            ELSE /\ ~calls[n].panicked
                 /\ calls[n].before = BasicBlock_new
                 /\ calls[n].after = [instructions |-> <<Instruction_Ret(calls[n].value)>>,
                                      terminated |-> TRUE]

\* a block on which ret was called three times: the first call returned,
\* the other two panicked, and the block holds the one instruction
C29_Witness ==
    \E b \in Blocks :
        /\ Cardinality(RetsOn(b)) = 3
        /\ ~calls[First(RetsOn(b))].panicked
        /\ calls[Last(RetsOn(b))].panicked
        /\ instructions[b] = <<Instruction_Ret(None)>>
        /\ terminated[b]

(***************************************************************************)
(* identifier.rs: the identifier strings.  A caller makes an Identifier    *)
(* with try_from, borrows it as an &Id, copies it with to_owned and        *)
(* changes it through the &mut String that deref_mut hands out.            *)

\* the byte 0, written as Rust writes it
NUL == "\\0"

\* the characters of the strings the caller builds
IdentifierChars == {"a", "-", NUL}

\* the longest string handed to try_from
MaxIdentifier == 2

\* identifier::Error
IdentifierError == "identifiers must not contain null bytes"

\* Id::new_unchecked, and Identifier::new_unchecked: the same text under
\* another type
Id_new_unchecked(identifier) == identifier

Identifier_new_unchecked(identifier) == identifier

\* <&Id>::try_from(&str)
Id_try_from(identifier) ==
    IF \E i \in 1..Len(identifier) : identifier[i] = NUL
    THEN Err(IdentifierError)
    ELSE [tag |-> "Ok", id |-> Id_new_unchecked(identifier)]

\* the rest of Identifier::try_from after the check of line 122
Identifier_try_from_checked(identifier, checked) ==
    IF checked.tag = "Err" THEN checked ELSE [tag |-> "Ok", id |-> identifier]

\* Identifier::try_from(String)
Identifier_try_from(identifier) == Identifier_try_from_checked(identifier, Id_try_from(identifier))

\* Identifier::as_id
Identifier_as_id(self) == Id_new_unchecked(self)

\* Id::to_owned
Id_to_owned(self) == Identifier_new_unchecked(self)

\* Identifier::deref_mut followed by String::push on what it returns
deref_mut_push(self, ch) == Append(self, ch)

InitIdentifiers == ParserIdle /\ NoCalls /\ NoObjects

IdentifierTriedFrom(argument, returned) ==
    /\ held' = IF returned.tag = "Ok" THEN Some(returned.id) ELSE held
    /\ calls' = Append(calls, [op |-> "Identifier::try_from", argument |-> argument,
                               returned |-> returned])

\* if let Ok(made) = Identifier::try_from(argument) { held = made }
CallIdentifierTryFrom ==
    /\ Len(calls) < MaxCalls
    /\ \E argument \in SeqsUpTo(IdentifierChars, MaxIdentifier) :
        IdentifierTriedFrom(argument, Identifier_try_from(argument))
    /\ UNCHANGED <<parserVars, pointers, tables, owned, instructions, terminated>>

IdTriedFrom(argument, returned) ==
    /\ held' = IF returned.tag = "Ok" THEN Some(Id_to_owned(returned.id)) ELSE held
    /\ calls' = Append(calls, [op |-> "<&Id>::try_from", argument |-> argument,
                               returned |-> returned])

\* if let Ok(id) = <&Id>::try_from(argument) { held = id.to_owned() }
CallIdTryFrom ==
    /\ Len(calls) < MaxCalls
    /\ \E argument \in SeqsUpTo(IdentifierChars, MaxIdentifier) :
        IdTriedFrom(argument, Id_try_from(argument))
    /\ UNCHANGED <<parserVars, pointers, tables, owned, instructions, terminated>>

\* held = held.as_id().to_owned()
CallToOwned ==
    /\ Len(calls) < MaxCalls
    /\ held # None
    /\ held' = Some(Id_to_owned(Identifier_as_id(held[1])))
    /\ calls' = Append(calls, [op |-> "to_owned", argument |-> held[1],
                               returned |-> Identifier_as_id(held[1])])
    /\ UNCHANGED <<parserVars, pointers, tables, owned, instructions, terminated>>

\* held.push(ch), which goes through deref_mut
CallPush ==
    /\ Len(calls) < MaxCalls
    /\ held # None
    /\ \E ch \in IdentifierChars :
        /\ held' = Some(deref_mut_push(held[1], ch))
        /\ calls' = Append(calls, [op |-> "push", argument |-> <<ch>>,
                                   returned |-> deref_mut_push(held[1], ch)])
    /\ UNCHANGED <<parserVars, pointers, tables, owned, instructions, terminated>>

NextIdentifiers == CallIdentifierTryFrom \/ CallIdTryFrom \/ CallToOwned \/ CallPush

SpecIdentifiers == InitIdentifiers /\ [][NextIdentifiers]_vars

HasNul(string) == \E i \in 1..Len(string) : string[i] = NUL

\* the two try_from succeed exactly on the strings without a NUL byte and
\* keep the text
TryFromChecks ==
    \A n \in 1..Len(calls) :
        calls[n].op \in {"Identifier::try_from", "<&Id>::try_from"} =>
            /\ calls[n].returned.tag = "Ok" <=> ~HasNul(calls[n].argument)
            /\ calls[n].returned.tag = "Ok" => calls[n].returned.id = calls[n].argument

\* C30: every Identifier and &Id reachable through the safe API holds no
\* NUL byte: the two try_from succeed exactly on the strings without one
\* and keep the text, and no later safe operation on the Identifier
\* (to_owned, as_id, a change through DerefMut) makes one that holds a NUL
\* byte.
C30_IdentifierHoldsNoNul ==
    /\ TryFromChecks
    /\ held # None => ~HasNul(held[1])
    /\ \A n \in 1..Len(calls) : calls[n].op = "to_owned" => ~HasNul(calls[n].returned)

=============================================================================
